---- MODULE Spec2Model ----
(***************************************************************************)
(* Model of FileAnalyzer::analyze_type_relations (src/analysis/file.rs):   *)
(* the first pass that collects the declared types, the context-tracking  *)
(* second pass with its one-line derive lookahead, and the relaxation loop *)
(* of build_type_relations.                                                *)
(*                                                                         *)
(* A line of the file is modelled by what the code's patterns see in it    *)
(* once trimmed:                                                           *)
(*   decl    the name captured by type_decl, or None when it has no match  *)
(*   refs    the identifiers captured by the six reference patterns of     *)
(*           analyze_dependencies (a set: the code inserts them in sets)   *)
(*   derive  whether the line starts with "#[derive"                       *)
(*   dmatch  whether derive_pattern matches the line                       *)
(*   body    the text captured by derive_pattern, a sequence of characters *)
(***************************************************************************)
EXTENDS Integers, Sequences, FiniteSets, TLC

\* Number of lines up to which every file is analysed; the files with a type
\* declared again and the files with derive annotations have one line more.
MaxLines == 3

\* Cap on the passes of the relaxation loop the model follows.
MaxPasses == 10

\* The largest max_retries a call of get_with_retry is given, and the number
\* of requests after which a call is followed no further.
MaxRetries == 3

MaxRequests == 6

\* The number of add_file calls an exporter is followed through.
MaxAdds == 7

\* The number of directory entries one call of analyze is followed through.
MaxEntries == 3

\* The identifiers a line can declare or mention. A file declares some of
\* them; the others are then names of undeclared (external) types.
Names == {"Bar", "Baz", "Foo"}

\* Option::None for current_type and for a line type_decl does not match:
\* no captured name is empty, the pattern asks for an upper-case letter.
None == ""

\* String order of the names, as Vec<String>::sort compares them.
Ord(n) == CASE n = "Bar" -> 1 [] n = "Baz" -> 2 [] n = "Foo" -> 3

----------------------------------------------------------------------------
(* Lines and files *)

BlankBody == <<>>

\* A line with no derive annotation: every combination of a declaration and
\* of at most one referenced identifier.
CodeLines ==
    { [decl |-> d, refs |-> r, derive |-> FALSE, dmatch |-> FALSE, body |-> BlankBody] :
        d \in Names \cup {None}, r \in {{}} \cup {{n} : n \in Names} }

\* The derive bodies of the model: "D", "D, C", "C,D", "D,", "D,D" and "".
DeriveBodies ==
    { <<"D">>, <<"D", ",", " ", "C">>, <<"C", ",", "D">>, <<"D", ",">>,
      <<"D", ",", "D">>, <<>> }

\* A line that starts with "#[derive": type_decl cannot match it. The
\* annotation is well formed (derive_pattern matches and captures a body) or
\* not (`#[derive]`, an unclosed parenthesis).
DeriveLines ==
    { [decl |-> None, refs |-> {}, derive |-> TRUE, dmatch |-> TRUE, body |-> b] :
        b \in DeriveBodies }
    \cup { [decl |-> None, refs |-> {}, derive |-> TRUE, dmatch |-> FALSE, body |-> BlankBody] }

\* The declaration lines and the blank line used around derive annotations.
PlainLines ==
    { [decl |-> d, refs |-> {}, derive |-> FALSE, dmatch |-> FALSE, body |-> BlankBody] :
        d \in {"Bar", "Foo", None} }

\* The lines without derive annotation that mention Bar, Baz or nothing.
NarrowLines == { l \in CodeLines : l.refs \subseteq {"Bar", "Baz"} }

FilesUpTo(kinds, n) == UNION { [1..m -> kinds] : m \in 0..n }

\* Files without derive annotations.
CodeFiles == FilesUpTo(CodeLines, MaxLines)

\* Files of one line more that declare Foo at least twice and mention only
\* Bar and Baz.
RedeclFiles ==
    { f \in [1..(MaxLines + 1) -> NarrowLines] :
        \E a, b \in DOMAIN f : a < b /\ f[a].decl = "Foo" /\ f[b].decl = "Foo" }

\* Files of derive annotations, declarations without references and blank
\* lines.
DeriveFiles == FilesUpTo(DeriveLines \cup PlainLines, MaxLines + 1)

----------------------------------------------------------------------------
(* Pure helpers *)

Range(s) == { s[k] : k \in DOMAIN s }

\* HashMap::get(..).cloned().unwrap_or_default() on a map to sets.
GetSet(map, key) == IF key \in DOMAIN map THEN map[key] ELSE {}

\* HashMap::insert (and entry().or_default() followed by a write).
Put(map, key, val) ==
    [k \in DOMAIN map \cup {key} |-> IF k = key THEN val ELSE map[k]]

\* The orders in which iterating a HashSet can yield its elements.
Orderings(S) ==
    { s \in [1..Cardinality(S) -> S] : \A a, b \in DOMAIN s : a # b => s[a] # s[b] }

\* Vec::sort after collecting a set: the elements in ascending string order.
SortedVec(S) ==
    CHOOSE s \in Orderings(S) : \A a, b \in DOMAIN s : a < b => Ord(s[a]) < Ord(s[b])

\* type_decl.captures(line.trim()): the captured name, or None.
TypeDecl(line) == line.decl

\* The white space of the model's texts (\s of the patterns, what str::trim
\* removes).
Space == {" ", "\t"}

\* str::trim on a sequence of characters.
RECURSIVE TrimStart(_)
TrimStart(s) == IF s # <<>> /\ Head(s) \in Space THEN TrimStart(Tail(s)) ELSE s

RECURSIVE TrimEnd(_)
TrimEnd(s) ==
    IF s # <<>> /\ s[Len(s)] \in Space THEN TrimEnd(SubSeq(s, 1, Len(s) - 1)) ELSE s

Trim(s) == TrimEnd(TrimStart(s))

\* str::split(','): the pieces between the commas, one more than the commas.
RECURSIVE SplitComma(_, _)
SplitComma(s, cur) ==
    IF s = <<>> THEN <<cur>>
    ELSE IF Head(s) = "," THEN <<cur>> \o SplitComma(Tail(s), <<>>)
    ELSE SplitComma(Tail(s), Append(cur, Head(s)))

\* Mutant: the pieces are not trimmed.
DeriveTraits_NoTrim(body) == SplitComma(body, <<>>)

\* derive_captures[1].split(',').map(|s| s.trim().to_string()).collect()
DeriveTraits(body) ==
    LET parts == SplitComma(body, <<>>)
    IN [k \in DOMAIN parts |-> Trim(parts[k])]

----------------------------------------------------------------------------
(* Regular expressions *)

\* A text is a sequence of characters; Chars turns a string constant into one.
Chars(str) == [k \in 1..Len(str) |-> SubSeq(str, k, k)]

Upper ==
    {"A", "B", "C", "D", "E", "F", "G", "H", "I", "J", "K", "L", "M", "N", "O", "P",
     "Q", "R", "S", "T", "U", "V", "W", "X", "Y", "Z"}

Lower ==
    {"a", "b", "c", "d", "e", "f", "g", "h", "i", "j", "k", "l", "m", "n", "o", "p",
     "q", "r", "s", "t", "u", "v", "w", "x", "y", "z"}

Digit == {"0", "1", "2", "3", "4", "5", "6", "7", "8", "9"}

\* \w and [a-zA-Z0-9_] over the characters of the model.
Word == Upper \cup Lower \cup Digit \cup {"_"}

\* The syntax of the patterns: a character class or its complement, literal
\* text, a concatenation, an ordered alternation, a greedy or lazy repetition with a
\* minimum, a capture group, and the anchors ^ and $.
In(set) == [op |-> "class", set |-> set, neg |-> FALSE]
NotIn(set) == [op |-> "class", set |-> set, neg |-> TRUE]
Cat(parts) == [op |-> "cat", parts |-> parts]
Lit(str) == [op |-> "lit", chars |-> Chars(str)]
Alt(parts) == [op |-> "alt", parts |-> parts]
Rep(of, min, greedy) == [op |-> "rep", of |-> of, min |-> min, greedy |-> greedy]
Star(of) == Rep(of, 0, TRUE)
Plus(of) == Rep(of, 1, TRUE)
LazyStar(of) == Rep(of, 0, FALSE)
Opt(of) == Alt(<<of, Cat(<<>>)>>)
Cap(id, of) == [op |-> "cap", id |-> id, of |-> of]
Bol == [op |-> "bol"]
Eol == [op |-> "eol"]
AnyChar == NotIn({"\n"})

\* Leftmost-first matching, as the regex crate reports it. A partial match r
\* is the position it has reached and the groups it has captured; Match gives
\* the ways a pattern can go on from r, the preferred one first.
RECURSIVE Match(_, _, _)
RECURSIVE Through(_, _, _)
RECURSIVE MatchCat(_, _, _, _)
RECURSIVE MatchAlt(_, _, _, _)

\* Whether a character is in a class.
InClass(class, c) == (c \in class.set) # class.neg

\* How many characters of the class follow one another from position pos.
RunLength(class, s, pos) ==
    LET stops == { q \in pos..Len(s) : ~InClass(class, s[q]) }
    IN IF stops = {} THEN Len(s) - pos + 1
       ELSE (CHOOSE q \in stops : \A x \in stops : q <= x) - pos

\* The ways pattern re can go on from the partial matches rs, in their order
\* (the list is halved rather than walked, to keep the evaluation shallow).
Through(re, s, rs) ==
    IF rs = <<>> THEN <<>>
    ELSE IF Len(rs) = 1 THEN Match(re, s, rs[1])
    ELSE LET half == Len(rs) \div 2
         IN Through(re, s, SubSeq(rs, 1, half))
            \o Through(re, s, SubSeq(rs, half + 1, Len(rs)))

MatchCat(parts, k, s, rs) ==
    IF k > Len(parts) \/ rs = <<>> THEN rs
    ELSE MatchCat(parts, k + 1, s, Through(parts[k], s, rs))

MatchAlt(parts, k, s, r) ==
    IF k > Len(parts) THEN <<>>
    ELSE Match(parts[k], s, r) \o MatchAlt(parts, k + 1, s, r)

Match(re, s, r) ==
    CASE re.op = "class" ->
           IF r.pos <= Len(s) /\ InClass(re, s[r.pos])
           THEN <<[r EXCEPT !.pos = @ + 1]>> ELSE <<>>
      [] re.op = "lit" ->
           IF r.pos + Len(re.chars) - 1 <= Len(s)
              /\ SubSeq(s, r.pos, r.pos + Len(re.chars) - 1) = re.chars
           THEN <<[r EXCEPT !.pos = @ + Len(re.chars)]>> ELSE <<>>
      [] re.op = "bol" -> IF r.pos = 1 THEN <<r>> ELSE <<>>
      [] re.op = "eol" -> IF r.pos = Len(s) + 1 THEN <<r>> ELSE <<>>
      [] re.op = "cat" -> MatchCat(re.parts, 1, s, <<r>>)
      [] re.op = "alt" -> MatchAlt(re.parts, 1, s, r)
      [] re.op = "cap" ->
           LET rs == Match(re.of, s, r)
           IN [k \in DOMAIN rs |->
                 [rs[k] EXCEPT !.caps = Put(@, re.id, SubSeq(s, r.pos, rs[k].pos - 1))]]
      [] re.op = "rep" ->
           \* Every repetition of the analyzer's patterns is of a character
           \* class: it can take from re.min characters up to the whole run,
           \* the longest first when greedy and the shortest first when lazy.
           LET run == RunLength(re.of, s, r.pos)
               count == run - re.min + 1
           IN IF count <= 0 THEN <<>>
              ELSE [k \in 1..count |->
                      [r EXCEPT !.pos = @ + (IF re.greedy THEN run - k + 1
                                             ELSE re.min + k - 1)]]

NoCaps == [k \in {} |-> <<>>]
NoMatch == [found |-> FALSE]

\* A pattern that begins with ^ matches at the start of the text or nowhere.
Anchored(re) == re.op = "cat" /\ re.parts # <<>> /\ re.parts[1].op = "bol"

\* The first match that starts at a position of lo..hi (the range is halved
\* rather than walked).
RECURSIVE FindIn(_, _, _, _)
FindIn(re, s, lo, hi) ==
    IF lo > hi THEN NoMatch
    ELSE IF lo = hi
    THEN LET rs == Match(re, s, [pos |-> lo, caps |-> NoCaps])
         IN IF rs # <<>>
            THEN [found |-> TRUE, start |-> lo, end |-> rs[1].pos, caps |-> rs[1].caps]
            ELSE NoMatch
    ELSE LET mid == (lo + hi) \div 2
             left == FindIn(re, s, lo, mid)
         IN IF left.found THEN left ELSE FindIn(re, s, mid + 1, hi)

\* The first match that starts at position `from` or later.
Find(re, s, from) == FindIn(re, s, from, IF Anchored(re) THEN 1 ELSE Len(s) + 1)

\* Regex::captures and Regex::is_match.
Captures(re, s) == Find(re, s, 1)
IsMatch(re, s) == Captures(re, s).found

\* Regex::captures_iter: the successive non-overlapping matches.
RECURSIVE CapturesIter(_, _, _)
CapturesIter(re, s, from) ==
    LET m == Find(re, s, from)
    IN IF ~m.found THEN <<>>
       ELSE <<m>> \o CapturesIter(re, s, IF m.end > m.start THEN m.end ELSE m.end + 1)

\* str::starts_with.
StartsWith(s, str) == Len(s) >= Len(str) /\ SubSeq(s, 1, Len(str)) = Chars(str)

----------------------------------------------------------------------------
(* The patterns of the analyzer *)

\* [A-Z][a-zA-Z0-9_]*
Ident == Cat(<<In(Upper), Star(In(Word))>>)

\* Mutant: the pattern without its anchor, found anywhere in the line.
type_decl_Unanchored ==
    Cat(<< Opt(Cat(<<Lit("pub"), Plus(In(Space))>>)),
           Alt(<<Lit("struct"), Lit("enum"), Lit("type")>>),
           Plus(In(Space)), Cap("1", Ident) >>)

\* ^(?:pub\s+)?(?:struct|enum|type)\s+([A-Z][a-zA-Z0-9_]*)
type_decl ==
    Cat(<< Bol, Opt(Cat(<<Lit("pub"), Plus(In(Space))>>)),
           Alt(<<Lit("struct"), Lit("enum"), Lit("type")>>),
           Plus(In(Space)), Cap("1", Ident) >>)

\* #\[derive\((.*?)\)\]
derive_pattern == Cat(<<Lit("#[derive("), Cap("1", LazyStar(AnyChar)), Lit(")]")>>)

\* <[^>]*>
Generics == Cat(<<Lit("<"), Star(NotIn({">"})), Lit(">")>>)

\* (?:&\s*)?
RefMark == Opt(Cat(<<Lit("&"), Star(In(Space))>>))

\* The six patterns of analyze_dependencies, in the order they are applied.
dependency_patterns ==
    << \* :\s*(?:&\s*)?([A-Z][a-zA-Z0-9_]*)\s*(?:<[^>]*>)?
       Cat(<< Lit(":"), Star(In(Space)), RefMark, Cap("1", Ident), Star(In(Space)),
              Opt(Generics) >>),
       \* fn\s+\w+\s*(?:<[^>]*>)?\s*\([^)]*?(?:&\s*)?([A-Z][a-zA-Z0-9_]*)
       Cat(<< Lit("fn"), Plus(In(Space)), Plus(In(Word)), Star(In(Space)), Opt(Generics),
              Star(In(Space)), Lit("("), LazyStar(NotIn({")"})), RefMark,
              Cap("1", Ident) >>),
       \* ->\s*(?:Result<)?(?:&\s*)?([A-Z][a-zA-Z0-9_]*)
       Cat(<< Lit("->"), Star(In(Space)), Opt(Lit("Result<")), RefMark, Cap("1", Ident) >>),
       \* impl(?:\s*<[^>]*>)?\s+([A-Z][a-zA-Z0-9_]*)\s+for
       Cat(<< Lit("impl"), Opt(Cat(<<Star(In(Space)), Generics>>)), Plus(In(Space)),
              Cap("1", Ident), Plus(In(Space)), Lit("for") >>),
       \* <[^>]*?([A-Z][a-zA-Z0-9_]*)[^>]*>
       Cat(<< Lit("<"), LazyStar(NotIn({">"})), Cap("1", Ident), Star(NotIn({">"})),
              Lit(">") >>),
       \* (?:Vec|Option|Box)<([A-Z][a-zA-Z0-9_]*)>
       Cat(<< Alt(<<Lit("Vec"), Lit("Option"), Lit("Box")>>), Lit("<"), Cap("1", Ident),
              Lit(">") >>) >>

\* (?P<vis>pub(?:\([^)]+\))?)?\s*fn\s+(?P<name>\w+)\s*<?\s*(?P<params>[^>]*?)>
\* \s*\((?P<args>[^)]*)\)(?:\s*->\s*(?P<ret>[^{]+))?
method_pattern ==
    Cat(<< Opt(Cap("vis", Cat(<< Lit("pub"),
                                 Opt(Cat(<<Lit("("), Plus(NotIn({")"})), Lit(")")>>)) >>))),
           Star(In(Space)), Lit("fn"), Plus(In(Space)),
           Cap("name", Plus(In(Word))),
           Star(In(Space)), Opt(Lit("<")), Star(In(Space)),
           Cap("params", LazyStar(NotIn({">"}))), Lit(">"),
           Star(In(Space)), Lit("("), Cap("args", Star(NotIn({")"}))), Lit(")"),
           Opt(Cat(<< Star(In(Space)), Lit("->"), Star(In(Space)),
                      Cap("ret", Plus(NotIn({"{"}))) >>)) >>)

\* (?:pub\s+)?const\s+([A-Z_][A-Z0-9_]*)\s*:\s*([^=]+)\s*=\s*([^;]+);
const_pattern ==
    Cat(<< Opt(Cat(<<Lit("pub"), Plus(In(Space))>>)), Lit("const"), Plus(In(Space)),
           Cap("1", Cat(<<In(Upper \cup {"_"}), Star(In(Upper \cup Digit \cup {"_"}))>>)),
           Star(In(Space)), Lit(":"), Star(In(Space)),
           Cap("2", Plus(NotIn({"="}))), Star(In(Space)), Lit("="), Star(In(Space)),
           Cap("3", Plus(NotIn({";"}))), Lit(";") >>)

\* #\[cfg\(feature\s*=\s*"([^"]+)"\)\]
feature_pattern ==
    Cat(<< Lit("#[cfg(feature"), Star(In(Space)), Lit("="), Star(In(Space)), Lit("\""),
           Cap("1", Plus(NotIn({"\""}))), Lit("\")]") >>)

\* #\[([^\]]+)\]
attribute_pattern == Cat(<<Lit("#["), Cap("1", Plus(NotIn({"]"}))), Lit("]")>>)

\* The (pattern, prefix) rules of generate_summary, in their order.
summary_patterns ==
    << \* ^///\s*(.*)$
       [pattern |-> Cat(<<Bol, Lit("///"), Star(In(Space)), Cap("1", Star(AnyChar)), Eol>>),
        prefix |-> "Documentation: "],
       \* ^//!\s*(.*)$
       [pattern |-> Cat(<<Bol, Lit("//!"), Star(In(Space)), Cap("1", Star(AnyChar)), Eol>>),
        prefix |-> "Module documentation: "],
       \* ^pub fn (\w+)
       [pattern |-> Cat(<<Bol, Lit("pub fn "), Cap("1", Plus(In(Word)))>>),
        prefix |-> "Public method: "],
       \* ^fn (\w+)
       [pattern |-> Cat(<<Bol, Lit("fn "), Cap("1", Plus(In(Word)))>>),
        prefix |-> "Private method: "],
       \* ^pub struct (\w+)
       [pattern |-> Cat(<<Bol, Lit("pub struct "), Cap("1", Plus(In(Word)))>>),
        prefix |-> "Public struct: "],
       \* ^pub enum (\w+)
       [pattern |-> Cat(<<Bol, Lit("pub enum "), Cap("1", Plus(In(Word)))>>),
        prefix |-> "Public enum: "],
       \* ^pub trait (\w+)
       [pattern |-> Cat(<<Bol, Lit("pub trait "), Cap("1", Plus(In(Word)))>>),
        prefix |-> "Public trait: "],
       \* ^impl\s+(\w+)
       [pattern |-> Cat(<<Bol, Lit("impl"), Plus(In(Space)), Cap("1", Plus(In(Word)))>>),
        prefix |-> "Implementation: "],
       \* ^\[.*\]
       [pattern |-> Cat(<<Bol, Lit("["), Star(AnyChar), Lit("]")>>),
        prefix |-> "Section: "] >>

\* String::from on captured characters: the name as a string.
RECURSIVE Str(_)
Str(cs) == IF cs = <<>> THEN "" ELSE Head(cs) \o Str(Tail(cs))

\* The names the matches of a pattern capture in a line.
CapturedNames(re, line) ==
    LET ms == CapturesIter(re, line, 1)
    IN { Str(ms[k].caps["1"]) : k \in DOMAIN ms }

\* What the patterns of analyze_type_relations see in a line of text: the line
\* is trimmed first, as both passes and the lookahead trim it.
LineView(raw) ==
    LET line == Trim(raw)
        decl == Captures(type_decl, line)
        derive == Captures(derive_pattern, line)
    IN [decl |-> IF decl.found THEN Str(decl.caps["1"]) ELSE None,
        refs |-> UNION { CapturedNames(dependency_patterns[k], line) :
                            k \in DOMAIN dependency_patterns },
        derive |-> StartsWith(line, "#[derive"),
        dmatch |-> derive.found,
        body |-> IF derive.found THEN derive.caps["1"] ELSE BlankBody]

----------------------------------------------------------------------------
(* Texts *)

TextsOf(strings) == { Chars(str) : str \in strings }

\* A line for each rule of generate_summary, two for the first, and lines no
\* rule matches: an indented signature, an empty line, a statement.
SummaryLines ==
    TextsOf({ "/// doc ", "/// more", "//! mod", "pub fn run() {", "fn help() {", "pub struct Foo;",
              "pub enum Bar {", "pub trait Run {", "impl Foo {", "[section]",
              "  pub fn inner()", "", "let x = 1;" })

\* The lines of the files of more than five lines.
FillerLines == TextsOf({ "fn a() {", "  b ", "" })

\* The line of a function signature, part by part: qualifier, generic
\* parameters, argument list, return type.
SignatureLine(vis, generics, args, ret) ==
    Chars(vis) \o Chars("fn helper") \o Chars(generics) \o Chars("(") \o Chars(args)
        \o Chars(")") \o Chars(ret)

Qualifiers == {"", "pub ", "pub(crate) "}
GenericParams == {"", "<T>"}
ArgLists == {"", "x: i32", "m: Map<K, V>, n: u8 "}
ReturnTypes == {"", " -> bool"}

SignatureLines ==
    { SignatureLine(v, g, a, r) :
        v \in Qualifiers, g \in GenericParams, a \in ArgLists, r \in ReturnTypes }

\* Constant declarations, attributes and other lines.
ConfigLines ==
    TextsOf({ "pub const MAX: usize = 10;", "const N:u8=1;", "const ZEROS: [u8; 4] = [0; 4];",
              "  pub  const A_1 : bool = 1 == 1 ;", "#[cfg(feature = \"net\")]",
              "#[derive(Debug)]", "#[test]", "", "let x = 1;" })

\* Lines of every sort for analyze_content, among them a comment that names a
\* type and a line of brackets.
ContentLines ==
    TextsOf({ "", "pub struct Foo {", "    bar: Bar,", "struct Bar;", "#[derive(Debug, Clone)]",
              "pub fn get<T>(a: &Foo) -> Bar {", "fn helper(x: i32) -> bool",
              "pub const MAX: usize = 10;", "// struct Foo", "})]>(" })

\* Lines of a file in which a type depends on two others.
PurityLines ==
    TextsOf({ "pub struct Foo {", "struct Bar;", "    bar: Bar,", "struct Baz {",
              "    a: Foo, b: Bar," })

\* A Rust file of seven lines that names a unit test in its sixth line, a
\* documentation comment, and in its seventh, a plain comment.
TextWithTests ==
    << Chars("//! A module"), Chars(""), Chars("pub struct Foo;"), Chars(""),
       Chars("fn help() {"), Chars("/// Unit test: run"), Chars("// Unit test: skipped") >>

\* The lines of the model's texts.
KnownLines ==
    SummaryLines \cup FillerLines \cup SignatureLines \cup ConfigLines \cup ContentLines
        \cup PurityLines \cup TextsOf({"", "let x = 1;"})
        \cup { TextWithTests[k] : k \in DOMAIN TextWithTests }

\* What each pattern finds in each of these lines, computed once per line:
\* Regex::captures for method_pattern, const_pattern, feature_pattern and
\* attribute_pattern, Regex::is_match for the rules of generate_summary, and
\* the view of analyze_type_relations.
OnLine ==
    [line \in KnownLines |->
        [method_pattern |-> Captures(method_pattern, line),
         const_pattern |-> Captures(const_pattern, line),
         feature_pattern |-> Captures(feature_pattern, line),
         attribute_pattern |-> Captures(attribute_pattern, line),
         summary_patterns |-> [r \in DOMAIN summary_patterns |->
                                  IsMatch(summary_patterns[r].pattern, line)],
         view |-> LineView(line)]]

----------------------------------------------------------------------------
(* State *)

VARIABLES
    content,          \* the lines of the analysed file
    pc,               \* position in analyze_type_relations
    i,                \* index of the line the second pass is at (from 1)
    project_types,    \* HashSet: the Type Universe of the first pass
    current_type,     \* Option<String>: the open context
    dependencies,     \* HashSet: accumulator of the open context
    traits_map,       \* HashMap<String, Vec<String>>
    usage_map,        \* HashMap<String, HashSet<String>>
    processed_types,  \* HashSet<String>
    relations,        \* Vec<TypeRelations>
    deps_graph,       \* HashMap<String, HashSet<String>> of build_type_relations
    users_graph,      \* HashMap<String, HashSet<String>> of build_type_relations
    changed,          \* the loop flag of build_type_relations
    passes,           \* how many times the body of `while changed` has run
    text,             \* the lines of the text an extractor is called on
    caller,           \* "analyze_content" while it runs its four extractors
    summary,          \* String of generate_summary, as its lines
    signatures,       \* Vec<MethodSignature>
    configuration,    \* Configuration
    cpc,              \* position in get_with_retry
    max_retries,      \* its argument
    retries,          \* its counter of failed attempts
    last_error,       \* Option<GithubAnalyzerError>
    requests,         \* how many requests the call has sent
    now,              \* the clock, in seconds
    slept,            \* the sleeps of the call, in order
    sent,             \* for every request of the call: the seconds slept since the
                      \* response before it, and what became of it
    response,         \* what came back for the request of this iteration
    result,           \* what the call returned
    epc,              \* the ProjectExporter: not built, open, or consumed by finish
    current_files,    \* Vec<(String, String)>: the buffer
    chunk_counter,    \* usize
    chunks,           \* the files chunks/chunk_<k>.txt on disk, by k
    written,          \* the other files of project_dir on disk
    index_content,    \* what complete_analysis.txt holds
    added,            \* the pairs add_file was called with, in order
    add_result,       \* what the last add_file returned
    finish_result,    \* what finish returned
    rpc,              \* position in RepositoryAnalyzer::analyze
    branch_index,     \* which of the branches the loop of analyze is at (from 1)
    analyze_last_error, \* last_error of analyze
    project_summary,  \* the ProjectSummary of the running attempt
    stack,            \* the entries each open analyze_directory has still to process
    attempts,         \* what every attempt listed, fetched and ended with
    outcome,          \* what analyze returned
    earlier,          \* a call that returned before, with its input and its result
    categorized       \* the last call of categorize_file, with its input and its result

\* The state of the extractors other than analyze_type_relations.
extractVars == <<text, caller, summary, signatures, configuration>>

\* The state of a get_with_retry call.
clientVars ==
    <<cpc, max_retries, retries, last_error, requests, now, slept, sent, response, result>>

\* The state of a ProjectExporter and of its directory.
exportVars ==
    <<epc, current_files, chunk_counter, chunks, written, index_content, added, add_result,
      finish_result>>

\* The state of a RepositoryAnalyzer::analyze call.
crawlVars ==
    <<rpc, branch_index, analyze_last_error, project_summary, stack, attempts, outcome>>

\* What is kept of the calls of categorize_file and analyze_content.
purityVars == <<earlier, categorized>>

\* The state of an analyze_type_relations call.
relationVars ==
    <<content, pc, i, project_types, current_type, dependencies, traits_map, usage_map,
      processed_types, relations, deps_graph, users_graph, changed, passes>>

vars == <<relationVars, extractVars, clientVars, exportVars, crawlVars, purityVars>>

EmptyMap == [k \in {} |-> {}]

\* Configuration with its three Vecs empty.
EmptyConfiguration ==
    [constants |-> <<>>, feature_flags |-> <<>>, custom_attributes |-> <<>>]

\* A call that has not returned.
NoResult == [kind |-> "none"]

\* No attempt of analyze has built its ProjectSummary yet.
NoSummary == [kind |-> "none"]

\* last_error before any failure (None), and the iteration without a response
\* yet.
NoError == [kind |-> "None"]

NoResponse == [kind |-> "none"]

----------------------------------------------------------------------------
(* analyze_type_relations: first pass *)

\* Mutant: the first pass also collects the names the lines mention.
CollectProjectTypes_WithMentions(lines) ==
    { TypeDecl(lines[k]) : k \in { j \in DOMAIN lines : TypeDecl(lines[j]) # None } }
    \cup UNION { lines[k].refs : k \in DOMAIN lines }

\* Every name a line of the file declares.
CollectProjectTypes(lines) ==
    { TypeDecl(lines[k]) : k \in { j \in DOMAIN lines : TypeDecl(lines[j]) # None } }

(* analyze_type_relations: second pass, one line *)

\* Mutant: a line that is neither a declaration nor an annotation is skipped
\* over by the lookahead.
DeriveLookahead_SkipsBlank(lines, idx, tmap) ==
    LET nxt == IF idx + 2 <= Len(lines) /\ TypeDecl(lines[idx + 1]) = None
                  /\ ~lines[idx + 1].derive
               THEN idx + 2 ELSE idx + 1
    IN IF lines[idx].derive /\ nxt <= Len(lines) /\ TypeDecl(lines[nxt]) # None
          /\ lines[idx].dmatch
       THEN Put(tmap, TypeDecl(lines[nxt]), DeriveTraits(lines[idx].body))
       ELSE tmap

\* The derive lookahead: only lines[i + 1] is inspected.
DeriveLookahead(lines, idx, tmap) ==
    IF lines[idx].derive
       /\ idx + 1 <= Len(lines)
       /\ TypeDecl(lines[idx + 1]) # None
       /\ lines[idx].dmatch
    THEN Put(tmap, TypeDecl(lines[idx + 1]), DeriveTraits(lines[idx].body))
    ELSE tmap

\* Mutant: the check forgets processed_types.
OpensContext_Always(line, processed) == TypeDecl(line) # None

\* Whether the declaration check opens a new context on this line.
OpensContext(line, processed) ==
    TypeDecl(line) # None /\ TypeDecl(line) \notin processed

\* Mutant: every declaration line met in an open context finalizes it.
FinalizesPrevious_OnAnyDecl(line, current, processed) ==
    TypeDecl(line) # None /\ current # None

\* Whether the declaration check finalizes the open context (add_type_relations
\* is called for prev_type).
FinalizesPrevious(line, current, processed) ==
    OpensContext(line, processed) /\ current # None

\* Mutant: every declaration line met in an open context clears the accumulator.
ResetsAccumulator_OnAnyDecl(line, current, processed) ==
    TypeDecl(line) # None /\ current # None

\* Mutant: the accumulator is never cleared.
ResetsAccumulator_Never(line, current, processed) == FALSE

\* Whether the declaration check clears the accumulator (dependencies.clear()).
ResetsAccumulator(line, current, processed) ==
    OpensContext(line, processed) /\ current # None

\* Mutant: a re-declaration takes the context over without finalizing.
NextContext_Reopen(line, current, processed) ==
    IF TypeDecl(line) # None THEN TypeDecl(line) ELSE current

\* current_type after the declaration check.
NextContext(line, current, processed) ==
    IF OpensContext(line, processed) THEN TypeDecl(line) ELSE current

\* Mutant: a mention of the open type itself is kept.
KeptReferences_KeepsSelf(line, current, ptypes) ==
    { n \in line.refs : n \in ptypes }

\* The identifiers analyze_dependencies keeps from a line.
KeptReferences(line, current, ptypes) ==
    { n \in line.refs : n \in ptypes /\ n # current }

\* analyze_dependencies: the accumulator and the usage map after the line.
AnalyzeDependencies(line, current, deps, umap, ptypes) ==
    LET kept == KeptReferences(line, current, ptypes)
    IN [dependencies |-> deps \cup kept,
        usage_map |-> [k \in DOMAIN umap \cup kept |->
                          IF k \in kept THEN GetSet(umap, k) \cup {current}
                          ELSE umap[k]]]

\* add_type_relations: the record pushed for type_name, its two Vecs in the
\* iteration orders d and u of the HashSets they are collected from.
NewRelation(type_name, tmap, d, u) ==
    [type_name |-> type_name,
     implemented_traits |-> IF type_name \in DOMAIN tmap THEN tmap[type_name] ELSE <<>>,
     used_by |-> u,
     depends_on |-> d]

\* The dependencies add_type_relations keeps.
FilteredDependencies(deps, ptypes) == { dep \in deps : dep \in ptypes }

\* The records add_type_relations can push for type_name.
AddTypeRelations(type_name, deps, tmap, umap, ptypes) ==
    { NewRelation(type_name, tmap, d, u) :
        d \in Orderings(FilteredDependencies(deps, ptypes)),
        u \in Orderings(GetSet(umap, type_name)) }

\* A FileAnalyzer has been built and analyses nothing yet.
Init ==
    /\ content = <<>>
    /\ pc = "idle"
    /\ i = 1
    /\ project_types = {}
    /\ current_type = None
    /\ dependencies = {}
    /\ traits_map = [k \in {} |-> <<>>]
    /\ usage_map = EmptyMap
    /\ processed_types = {}
    /\ relations = <<>>
    /\ deps_graph = EmptyMap
    /\ users_graph = EmptyMap
    /\ changed = FALSE
    /\ passes = 0
    /\ text = <<>>
    /\ caller = "none"
    /\ summary = <<>>
    /\ signatures = <<>>
    /\ configuration = EmptyConfiguration
    /\ cpc = "idle"
    /\ max_retries = 0
    /\ retries = 0
    /\ last_error = NoError
    /\ requests = 0
    /\ now = 0
    /\ slept = <<>>
    /\ sent = <<>>
    /\ response = NoResponse
    /\ result = NoResult
    /\ epc = "none"
    /\ current_files = <<>>
    /\ chunk_counter = 0
    /\ chunks = <<>>
    /\ written = {}
    /\ index_content = <<>>
    /\ added = <<>>
    /\ add_result = NoResult
    /\ finish_result = NoResult
    /\ rpc = "idle"
    /\ branch_index = 1
    /\ analyze_last_error = NoError
    /\ project_summary = NoSummary
    /\ stack = <<>>
    /\ attempts = <<>>
    /\ outcome = NoResult
    /\ earlier = NoResult
    /\ categorized = NoResult

\* analyze_type_relations is called on a file of `files`.
Call(files) ==
    /\ pc = "idle"
    /\ content' \in files
    /\ pc' = "first_pass"
    /\ UNCHANGED <<i, project_types, current_type, dependencies, traits_map, usage_map,
                   processed_types, relations, deps_graph, users_graph, changed, passes>>
    /\ UNCHANGED <<extractVars, clientVars, exportVars, crawlVars, purityVars>>

FirstPass ==
    /\ pc = "first_pass"
    /\ project_types' = CollectProjectTypes(content)
    /\ pc' = "scan"
    /\ UNCHANGED <<content, i, current_type, dependencies, traits_map, usage_map,
                   processed_types, relations, deps_graph, users_graph, changed, passes>>
    /\ UNCHANGED <<extractVars, clientVars, exportVars, crawlVars, purityVars>>

\* One iteration of `while i < lines.len()`.
ScanLine ==
    /\ pc = "scan"
    /\ i <= Len(content)
    /\ LET line == content[i]
           tmap == DeriveLookahead(content, i, traits_map)
           finalizes == FinalizesPrevious(line, current_type, processed_types)
           current == NextContext(line, current_type, processed_types)
           deps == IF ResetsAccumulator(line, current_type, processed_types)
                   THEN {} ELSE dependencies
           after == IF current # None
                    THEN AnalyzeDependencies(line, current, deps, usage_map, project_types)
                    ELSE [dependencies |-> deps, usage_map |-> usage_map]
       IN /\ traits_map' = tmap
          /\ IF finalizes
             THEN \E r \in AddTypeRelations(current_type, dependencies, tmap,
                                            usage_map, project_types) :
                     relations' = Append(relations, r)
             ELSE relations' = relations
          /\ current_type' = current
          /\ processed_types' = IF OpensContext(line, processed_types)
                                THEN processed_types \cup {TypeDecl(line)}
                                ELSE processed_types
          /\ dependencies' = after.dependencies
          /\ usage_map' = after.usage_map
    /\ i' = i + 1
    /\ UNCHANGED <<content, pc, project_types, deps_graph, users_graph, changed, passes>>
    /\ UNCHANGED <<extractVars, clientVars, exportVars, crawlVars, purityVars>>

\* After the loop: the last open context is finalized.
FinalizeLast ==
    /\ pc = "scan"
    /\ i > Len(content)
    /\ IF current_type # None
       THEN \E r \in AddTypeRelations(current_type, dependencies, traits_map,
                                      usage_map, project_types) :
               relations' = Append(relations, r)
       ELSE relations' = relations
    /\ pc' = "build"
    /\ UNCHANGED <<content, i, project_types, current_type, dependencies, traits_map,
                   usage_map, processed_types, deps_graph, users_graph, changed, passes>>
    /\ UNCHANGED <<extractVars, clientVars, exportVars, crawlVars, purityVars>>

----------------------------------------------------------------------------
(* build_type_relations *)

\* Mutant: the users graph is not built.
AddToGraphs_DepsOnly(g, relation) ==
    LET name == relation.type_name
    IN [deps |-> Put(g.deps, name, GetSet(g.deps, name) \cup Range(relation.depends_on)),
        users |-> g.users]

\* One relation's step of "Construction des graphes initiaux".
AddToGraphs(g, relation) ==
    LET name == relation.type_name
        deps == Range(relation.depends_on)
        dg == Put(g.deps, name, GetSet(g.deps, name) \cup deps)
    IN [deps |-> dg,
        users |-> [k \in DOMAIN g.users \cup deps |-> GetSet(g.users, k) \cup
                                                     (IF k \in deps THEN {name} ELSE {})]]

RECURSIVE InitialGraphs(_, _, _)
InitialGraphs(rels, k, g) ==
    IF k > Len(rels) THEN g ELSE InitialGraphs(rels, k + 1, AddToGraphs(g, rels[k]))

\* Mutant: the sets of the members are not unioned in.
Relaxed_DirectOnly(graph, name) == GetSet(graph, name)

\* new_deps / new_users: the current set with the sets of its members
\* unioned in.
Relaxed(graph, name) ==
    LET current == GetSet(graph, name)
    IN current \cup UNION { GetSet(graph, d) : d \in current }

\* Mutant: the grown sets are stored but the flag is never raised.
RelaxRelation_NoFlag(g, name) ==
    [deps |-> Put(g.deps, name, Relaxed(g.deps, name)),
     users |-> Put(g.users, name, Relaxed(g.users, name)),
     changed |-> g.changed]

\* Mutant: the flag is raised whenever a member brings a set, new or not.
RelaxRelation_FlagOnAnyUnion(g, name) ==
    LET new_deps == Relaxed(g.deps, name)
        changed1 == g.changed \/ (UNION { GetSet(g.deps, d) : d \in GetSet(g.deps, name) }) # {}
        deps1 == IF changed1 THEN Put(g.deps, name, new_deps) ELSE g.deps
        new_users == Relaxed(g.users, name)
        changed2 == changed1
                    \/ (UNION { GetSet(g.users, d) : d \in GetSet(g.users, name) }) # {}
        users1 == IF changed2 THEN Put(g.users, name, new_users) ELSE g.users
    IN [deps |-> deps1, users |-> users1, changed |-> changed2]

\* The body of `for relation in relations.iter()` for one relation: g holds
\* the two graphs and the changed flag.
RelaxRelation(g, name) ==
    LET new_deps == Relaxed(g.deps, name)
        changed1 == g.changed \/ new_deps # GetSet(g.deps, name)
        deps1 == IF changed1 THEN Put(g.deps, name, new_deps) ELSE g.deps
        new_users == Relaxed(g.users, name)
        changed2 == changed1 \/ new_users # GetSet(g.users, name)
        users1 == IF changed2 THEN Put(g.users, name, new_users) ELSE g.users
    IN [deps |-> deps1, users |-> users1, changed |-> changed2]

\* One pass of the while loop over the relations, from relation k on.
RECURSIVE RelaxFrom(_, _, _)
RelaxFrom(rels, k, g) ==
    IF k > Len(rels) THEN g
    ELSE RelaxFrom(rels, k + 1, RelaxRelation(g, rels[k].type_name))

\* Mutant: only depends_on is rewritten, used_by stays as it was pushed.
UpdatedRelation_KeepsUsedBy(relation, dg, ug) ==
    [relation EXCEPT
        !.depends_on = IF relation.type_name \in DOMAIN dg
                       THEN SortedVec(dg[relation.type_name]) ELSE @]

\* The final loop: a relation takes the sorted closed sets of the graphs that
\* have an entry for it.
UpdatedRelation(relation, dg, ug) ==
    [relation EXCEPT
        !.depends_on = IF relation.type_name \in DOMAIN dg
                       THEN SortedVec(dg[relation.type_name]) ELSE @,
        !.used_by = IF relation.type_name \in DOMAIN ug
                    THEN SortedVec(ug[relation.type_name]) ELSE @]

\* `while changed`: passes until one changes nothing.
RECURSIVE RelaxLoop(_, _)
RelaxLoop(rels, g) ==
    LET after == RelaxFrom(rels, 1, [g EXCEPT !.changed = FALSE])
    IN IF after.changed THEN RelaxLoop(rels, after) ELSE after

\* build_type_relations as a function of the relation list.
BuildTypeRelations(rels) ==
    LET g0 == InitialGraphs(rels, 1, [deps |-> EmptyMap, users |-> EmptyMap])
        g == RelaxLoop(rels, [deps |-> g0.deps, users |-> g0.users, changed |-> TRUE])
    IN [k \in DOMAIN rels |-> UpdatedRelation(rels[k], g.deps, g.users)]

BuildGraphs ==
    /\ pc = "build"
    /\ LET g == InitialGraphs(relations, 1, [deps |-> EmptyMap, users |-> EmptyMap])
       IN /\ deps_graph' = g.deps
          /\ users_graph' = g.users
    /\ changed' = TRUE
    /\ pc' = "relax"
    /\ UNCHANGED <<content, i, project_types, current_type, dependencies, traits_map,
                   usage_map, processed_types, relations, passes>>
    /\ UNCHANGED <<extractVars, clientVars, exportVars, crawlVars, purityVars>>

\* One iteration of `while changed`.
RelaxPass ==
    /\ pc = "relax"
    /\ changed
    /\ passes < MaxPasses
    /\ LET g == RelaxFrom(relations, 1,
                          [deps |-> deps_graph, users |-> users_graph, changed |-> FALSE])
       IN /\ deps_graph' = g.deps
          /\ users_graph' = g.users
          /\ changed' = g.changed
    /\ passes' = passes + 1
    /\ UNCHANGED <<content, pc, i, project_types, current_type, dependencies, traits_map,
                   usage_map, processed_types, relations>>
    /\ UNCHANGED <<extractVars, clientVars, exportVars, crawlVars, purityVars>>

\* The loop has ended: the relations are rewritten and returned.
UpdateRelations ==
    /\ pc = "relax"
    /\ ~changed
    /\ relations' = [k \in DOMAIN relations |->
                        UpdatedRelation(relations[k], deps_graph, users_graph)]
    /\ pc' = "done"
    /\ UNCHANGED <<content, i, project_types, current_type, dependencies, traits_map,
                   usage_map, processed_types, deps_graph, users_graph, changed, passes>>
    /\ UNCHANGED <<extractVars, clientVars, exportVars, crawlVars, purityVars>>

Analyze ==
    \/ FirstPass
    \/ ScanLine
    \/ FinalizeLast
    \/ BuildGraphs
    \/ RelaxPass
    \/ UpdateRelations

Next == Call(CodeFiles) \/ Analyze

Spec == Init /\ [][Next]_vars

\* The same program, also on the longer files that declare a type again.
NextRedecl == Call(CodeFiles \cup RedeclFiles) \/ Analyze

SpecRedecl == Init /\ [][NextRedecl]_vars

\* The same program on files with derive annotations.
NextDerive == Call(DeriveFiles) \/ Analyze

SpecDerive == Init /\ [][NextDerive]_vars

----------------------------------------------------------------------------
(* generate_summary *)

\* lines.iter().take(5)
FirstLines(lines) == SubSeq(lines, 1, IF Len(lines) < 5 THEN Len(lines) ELSE 5)

\* The inner loop of rule number `rule`: a labeled line for every line the
\* pattern matches, from line k on.
RECURSIVE LabeledBy(_, _, _)
LabeledBy(rule, lines, k) ==
    IF k > Len(lines) THEN <<>>
    ELSE (IF OnLine[lines[k]].summary_patterns[rule]
          THEN <<Chars(summary_patterns[rule].prefix) \o Trim(lines[k])>> ELSE <<>>)
         \o LabeledBy(rule, lines, k + 1)

\* Mutant: the loops are swapped, every line is tried against the rules in
\* turn.
RECURSIVE Labeled_LineByLine(_, _)
Labeled_LineByLine(lines, k) ==
    IF k > Len(lines) THEN <<>>
    ELSE LET hits == { r \in DOMAIN summary_patterns :
                          OnLine[lines[k]].summary_patterns[r] }
         IN (IF hits = {} THEN <<>>
             ELSE <<Chars(summary_patterns[CHOOSE r \in hits : \A q \in hits : r <= q].prefix)
                      \o Trim(lines[k])>>)
            \o Labeled_LineByLine(lines, k + 1)

\* `for (pattern, prefix) in patterns`, from rule r on.
RECURSIVE Labeled(_, _)
Labeled(lines, r) ==
    IF r > Len(summary_patterns) THEN <<>>
    ELSE LabeledBy(r, lines, 1) \o Labeled(lines, r + 1)

\* Mutant: no header line.
FileStart_NoHeader(lines) == FirstLines(lines)

\* The block pushed when the file has a line: the header and the first lines.
FileStart(lines) ==
    IF lines # <<>> THEN <<Chars("File start:")>> \o FirstLines(lines) ELSE <<>>

\* generate_summary: the String, as the lines pushed to it ("\n" ends each).
SummaryOf(lines) == FileStart(lines) \o Labeled(lines, 1)

----------------------------------------------------------------------------
(* analyze_method_signatures *)

\* A named group of a match, if it took part in it.
HasGroup(m, id) == id \in DOMAIN m.caps

VisibilityOf(m) ==
    IF HasGroup(m, "vis") /\ m.caps["vis"] = Chars("pub") THEN "Public"
    ELSE IF HasGroup(m, "vis") /\ m.caps["vis"] = Chars("pub(crate)") THEN "PublicCrate"
    ELSE "Private"

\* Mutant: the empty pieces are dropped.
ParamsOf_DropsEmpty(args) ==
    SelectSeq(DeriveTraits(args), LAMBDA piece : piece # <<>>)

\* args.split(',').filter_map(|p| Some(p.trim().to_string())).collect()
ParamsOf(args) ==
    LET parts == SplitComma(args, <<>>)
    IN [k \in DOMAIN parts |-> Trim(parts[k])]

\* The MethodSignature pushed for a match of method_pattern.
SignatureOf(m) ==
    [name |-> IF HasGroup(m, "name") THEN m.caps["name"] ELSE <<>>,
     params |-> IF HasGroup(m, "args") THEN ParamsOf(m.caps["args"]) ELSE <<>>,
     return_type |-> IF HasGroup(m, "ret") THEN Trim(m.caps["ret"]) ELSE Chars("()"),
     visibility |-> VisibilityOf(m)]

\* `for line in content.lines()` of analyze_method_signatures, from line k on.
RECURSIVE SignaturesFrom(_, _)
SignaturesFrom(lines, k) ==
    IF k > Len(lines) THEN <<>>
    ELSE LET m == OnLine[lines[k]].method_pattern
         IN (IF m.found THEN <<SignatureOf(m)>> ELSE <<>>) \o SignaturesFrom(lines, k + 1)

----------------------------------------------------------------------------
(* analyze_configuration *)

\* The triple pushed for a match of const_pattern.
ConstantOf(m) == <<m.caps["1"], Trim(m.caps["2"]), Trim(m.caps["3"])>>

\* One line of analyze_configuration: what it pushes to the three Vecs.
ConfigurationAfter(config, line) ==
    LET const == OnLine[line].const_pattern
        feature == OnLine[line].feature_pattern
        attribute == OnLine[line].attribute_pattern
    IN [constants |->
            config.constants \o (IF const.found THEN <<ConstantOf(const)>> ELSE <<>>),
        feature_flags |->
            config.feature_flags \o (IF feature.found THEN <<feature.caps["1"]>> ELSE <<>>),
        custom_attributes |->
            config.custom_attributes \o
                (IF attribute.found /\ ~StartsWith(attribute.caps["1"], "cfg")
                    /\ ~StartsWith(attribute.caps["1"], "test")
                 THEN <<attribute.caps["1"]>> ELSE <<>>)]

\* `for line in content.lines()` of analyze_configuration, from line k on.
RECURSIVE ConfigurationFrom(_, _, _)
ConfigurationFrom(lines, k, config) ==
    IF k > Len(lines) THEN config
    ELSE ConfigurationFrom(lines, k + 1, ConfigurationAfter(config, lines[k]))

----------------------------------------------------------------------------
(* The files the extractors are called on *)

SummaryFiles ==
    FilesUpTo(SummaryLines, MaxLines) \cup FilesUpTo(FillerLines, MaxLines + 3)

MethodFiles == FilesUpTo(SignatureLines \cup TextsOf({"", "let x = 1;"}), MaxLines - 1)

ConfigFiles == FilesUpTo(ConfigLines, MaxLines)

ContentFiles == FilesUpTo(ContentLines, MaxLines)

----------------------------------------------------------------------------
(* analyze_content and its extractors *)

\* generate_summary is called on a file of `files`.
CallSummary(files) ==
    /\ pc = "idle"
    /\ text' \in files
    /\ pc' = "summary"
    /\ UNCHANGED <<content, i, project_types, current_type, dependencies, traits_map,
                   usage_map, processed_types, relations, deps_graph, users_graph, changed,
                   passes, caller, summary, signatures, configuration, clientVars, exportVars,
                   crawlVars, purityVars>>

\* analyze_method_signatures is called on a file of `files`.
CallMethods(files) ==
    /\ pc = "idle"
    /\ text' \in files
    /\ pc' = "methods"
    /\ UNCHANGED <<content, i, project_types, current_type, dependencies, traits_map,
                   usage_map, processed_types, relations, deps_graph, users_graph, changed,
                   passes, caller, summary, signatures, configuration, clientVars, exportVars,
                   crawlVars, purityVars>>

\* analyze_configuration is called on a file of `files`.
CallConfiguration(files) ==
    /\ pc = "idle"
    /\ text' \in files
    /\ pc' = "config"
    /\ UNCHANGED <<content, i, project_types, current_type, dependencies, traits_map,
                   usage_map, processed_types, relations, deps_graph, users_graph, changed,
                   passes, caller, summary, signatures, configuration, clientVars, exportVars,
                   crawlVars, purityVars>>

\* analyze_content is called on a file of `files`: it starts with the summary.
AnalyzeContent(files) ==
    /\ pc = "idle"
    /\ text' \in files
    /\ caller' = "analyze_content"
    /\ pc' = "summary"
    /\ UNCHANGED <<content, i, project_types, current_type, dependencies, traits_map,
                   usage_map, processed_types, relations, deps_graph, users_graph, changed,
                   passes, summary, signatures, configuration, clientVars, exportVars,
                   crawlVars, purityVars>>

GenerateSummary ==
    /\ pc = "summary"
    /\ summary' = SummaryOf(text)
    /\ pc' = IF caller = "analyze_content" THEN "relations" ELSE "returned"
    /\ UNCHANGED <<content, i, project_types, current_type, dependencies, traits_map,
                   usage_map, processed_types, relations, deps_graph, users_graph, changed,
                   passes, text, caller, signatures, configuration, clientVars, exportVars,
                   crawlVars, purityVars>>

\* analyze_content calls analyze_type_relations on the same text.
EnterTypeRelations ==
    /\ pc = "relations"
    /\ content' = [k \in DOMAIN text |-> OnLine[text[k]].view]
    /\ pc' = "first_pass"
    /\ UNCHANGED <<i, project_types, current_type, dependencies, traits_map, usage_map,
                   processed_types, relations, deps_graph, users_graph, changed, passes,
                   extractVars, clientVars, exportVars, crawlVars, purityVars>>

\* analyze_content prints the relations it got and goes on.
ReportRelations ==
    /\ pc = "done"
    /\ caller = "analyze_content"
    /\ pc' = "methods"
    /\ UNCHANGED <<content, i, project_types, current_type, dependencies, traits_map,
                   usage_map, processed_types, relations, deps_graph, users_graph, changed,
                   passes, extractVars, clientVars, exportVars, crawlVars, purityVars>>

AnalyzeMethodSignatures ==
    /\ pc = "methods"
    /\ signatures' = SignaturesFrom(text, 1)
    /\ pc' = IF caller = "analyze_content" THEN "config" ELSE "returned"
    /\ UNCHANGED <<content, i, project_types, current_type, dependencies, traits_map,
                   usage_map, processed_types, relations, deps_graph, users_graph, changed,
                   passes, text, caller, summary, configuration, clientVars, exportVars,
                   crawlVars, purityVars>>

\* The last extractor: analyze_content returns its tuple after it.
AnalyzeConfiguration ==
    /\ pc = "config"
    /\ configuration' = ConfigurationFrom(text, 1, EmptyConfiguration)
    /\ pc' = "returned"
    /\ UNCHANGED <<content, i, project_types, current_type, dependencies, traits_map,
                   usage_map, processed_types, relations, deps_graph, users_graph, changed,
                   passes, text, caller, summary, signatures, clientVars, exportVars,
                   crawlVars, purityVars>>

NextSummary == CallSummary(SummaryFiles) \/ GenerateSummary

SpecSummary == Init /\ [][NextSummary]_vars

NextMethods == CallMethods(MethodFiles) \/ AnalyzeMethodSignatures

SpecMethods == Init /\ [][NextMethods]_vars

NextConfig == CallConfiguration(ConfigFiles) \/ AnalyzeConfiguration

SpecConfig == Init /\ [][NextConfig]_vars

\* The steps of a call of analyze_content.
ContentSteps ==
    \/ GenerateSummary
    \/ EnterTypeRelations
    \/ Analyze
    \/ ReportRelations
    \/ AnalyzeMethodSignatures
    \/ AnalyzeConfiguration

NextContent == AnalyzeContent(ContentFiles) \/ ContentSteps

SpecContent == Init /\ [][NextContent]_vars

----------------------------------------------------------------------------
(* GithubClient::get_with_retry *)

\* A header that is absent, or whose value does not parse as a number.
Absent == -1

\* GithubAnalyzerError
NetworkError(msg) == [kind |-> "NetworkError", msg |-> msg]

ParseError(msg) == [kind |-> "ParseError", msg |-> msg]

RateLimitError(reset) == [kind |-> "RateLimitError", reset |-> reset]

Ok == [kind |-> "Ok"]

Err(e) == [kind |-> "Err", error |-> e]

\* What can come back for a request sent at time t: an error of send(), or a
\* response with its status, its two rate-limit headers and a body that
\* deserializes or not.
Responses(t) ==
    {[kind |-> "error"]}
    \cup [kind : {"response"}, status : {200, 403, 500}, remaining : {Absent, 0, 5},
          reset : {Absent, t, t + 2}, parses : BOOLEAN]

\* The test of lines 70-86: remaining is 0 and the reset time lies ahead.
RateLimited(r, t) ==
    r.kind = "response" /\ r.remaining # Absent /\ r.remaining = 0
        /\ r.reset # Absent /\ r.reset > t

Pow2_Linear(n) == n + 1

\* 2u64.pow(retries)
RECURSIVE Pow2(_)
Pow2(n) == IF n = 0 THEN 1 ELSE 2 * Pow2(n - 1)

\* get_with_retry is called: lines 53-54.
CallGet ==
    /\ cpc = "idle"
    /\ max_retries' \in 0..MaxRetries
    /\ retries' = 0
    /\ last_error' = NoError
    /\ cpc' = "loop"
    /\ UNCHANGED <<content, pc, i, project_types, current_type, dependencies, traits_map,
                   usage_map, processed_types, relations, deps_graph, users_graph, changed,
                   passes, extractVars, exportVars, crawlVars, purityVars, requests, now,
                   slept, sent, response, result>>

\* The loop condition fails: the Err after the loop.
GiveUp ==
    /\ cpc = "loop"
    /\ retries > max_retries
    /\ result' = Err(IF last_error # NoError THEN last_error
                     ELSE NetworkError("Maximum retries exceeded"))
    /\ cpc' = "returned"
    /\ UNCHANGED <<content, pc, i, project_types, current_type, dependencies, traits_map,
                   usage_map, processed_types, relations, deps_graph, users_graph, changed,
                   passes, extractVars, exportVars, crawlVars, purityVars, max_retries,
                   retries, last_error, requests, now, slept, sent, response>>

\* One iteration up to send(): the wait before a retry, then the request.
Send ==
    /\ cpc = "loop"
    /\ retries <= max_retries
    /\ requests < MaxRequests
    /\ slept' = IF retries > 0 THEN Append(slept, Pow2(retries)) ELSE slept
    /\ now' = IF retries > 0 THEN now + Pow2(retries) ELSE now
    /\ sent' = Append(sent, [wait |-> (IF sent # <<>> THEN sent[Len(sent)].pause ELSE 0)
                                        + (IF retries > 0 THEN Pow2(retries) ELSE 0),
                             outcome |-> "pending", pause |-> 0])
    /\ requests' = requests + 1
    /\ response' = NoResponse
    /\ cpc' = "await"
    /\ UNCHANGED <<content, pc, i, project_types, current_type, dependencies, traits_map,
                   usage_map, processed_types, relations, deps_graph, users_graph, changed,
                   passes, extractVars, exportVars, crawlVars, purityVars, max_retries,
                   retries, last_error, result>>

\* `continue` after the rate-limit wait: retries is left as it is.
AfterRateLimit(n) == n

\* What became of a request: it failed and counts as a retry, it was answered
\* with no quota left and is sent again after the pause, or its answer ended
\* the call.
Became(r, t) ==
    IF r.kind = "error" THEN [outcome |-> "failed", pause |-> 0]
    ELSE IF RateLimited(r, t) THEN [outcome |-> "limited", pause |-> r.reset - t + 1]
    ELSE IF r.status \in {200, 403} THEN [outcome |-> "final", pause |-> 0]
    ELSE [outcome |-> "failed", pause |-> 0]

\* The rest of the iteration, for what send() gave.
Receive ==
    /\ cpc = "await"
    /\ \E r \in Responses(now) :
          /\ response' = r
          /\ sent' = [sent EXCEPT ![Len(sent)] =
                         [wait |-> @.wait, outcome |-> Became(r, now).outcome,
                          pause |-> Became(r, now).pause]]
          /\ IF r.kind = "error"
             THEN /\ last_error' = NetworkError("send")
                  /\ retries' = retries + 1
                  /\ cpc' = "loop"
                  /\ UNCHANGED <<now, slept, result>>
             ELSE IF RateLimited(r, now)
             THEN /\ slept' = Append(slept, r.reset - now + 1)
                  /\ now' = r.reset + 1
                  /\ retries' = AfterRateLimit(retries)
                  /\ cpc' = "loop"
                  /\ UNCHANGED <<last_error, result>>
             ELSE IF r.status = 200
             THEN /\ result' = IF r.parses THEN Ok ELSE Err(ParseError("json"))
                  /\ cpc' = "returned"
                  /\ UNCHANGED <<retries, last_error, now, slept>>
             ELSE IF r.status = 403
             THEN /\ result' = Err(RateLimitError(IF r.reset # Absent THEN r.reset ELSE 0))
                  /\ cpc' = "returned"
                  /\ UNCHANGED <<retries, last_error, now, slept>>
             ELSE /\ last_error' = NetworkError("status")
                  /\ retries' = retries + 1
                  /\ cpc' = "loop"
                  /\ UNCHANGED <<now, slept, result>>
    /\ UNCHANGED <<content, pc, i, project_types, current_type, dependencies, traits_map,
                   usage_map, processed_types, relations, deps_graph, users_graph, changed,
                   passes, extractVars, exportVars, crawlVars, purityVars, max_retries, requests>>

NextClient == CallGet \/ GiveUp \/ Send \/ Receive

SpecClient == Init /\ [][NextClient]_vars

----------------------------------------------------------------------------
(* categorize_file *)

EndsWith(s, str) ==
    Len(s) >= Len(str) /\ SubSeq(s, Len(s) - Len(str) + 1, Len(s)) = Chars(str)

Contains(s, str) ==
    LET t == Chars(str)
    IN \E k \in 1..(Len(s) - Len(t) + 1) : \A q \in 1..Len(t) : s[k + q - 1] = t[q]

\* Path::extension of a file name: what follows the last dot, unless the only
\* dot is the first character; "" for none (unwrap_or("")).
Extension(s) ==
    LET dots == { k \in DOMAIN s : s[k] = "." }
    IN IF dots \subseteq {1} THEN <<>>
       ELSE SubSeq(s, (CHOOSE k \in dots : \A d \in dots : d <= k) + 1, Len(s))

SourceExtensions == TextsOf({"rs", "go", "js", "py", "java", "cpp", "c"})

CONFIG_FILES == TextsOf({"Cargo.toml", "package.json", "go.mod", "Makefile", "CMakeLists.txt"})

is_config_file(s) == s \in CONFIG_FILES

is_documentation_file(s) ==
    \/ EndsWith(s, ".md")
    \/ StartsWith(s, "LICENSE")
    \/ StartsWith(s, "CONTRIBUTING")
    \/ StartsWith(s, "README")
    \/ StartsWith(s, "CHANGELOG")

is_test_file(s) ==
    \/ Contains(s, "test")
    \/ EndsWith(s, "_test.go")
    \/ EndsWith(s, ".test.js")
    \/ EndsWith(s, "Test.java")
    \/ EndsWith(s, "_test.py")
    \/ EndsWith(s, "_spec.rb")

\* FileCategory; every category has a lang, empty but for Source.
Category(kind, lang) == [kind |-> kind, lang |-> lang]

\* Mutant: the test names are looked for before the extension.
categorize_file_TestFirst(filename) ==
    LET s == Chars(filename)
        extension == Extension(s)
    IN IF is_test_file(s) THEN Category("Test", <<>>)
       ELSE IF extension \in SourceExtensions THEN Category("Source", extension)
       ELSE IF is_config_file(s) THEN Category("Configuration", <<>>)
       ELSE IF is_documentation_file(s) THEN Category("Documentation", <<>>)
       ELSE Category("Unknown", <<>>)

categorize_file(filename) ==
    LET s == Chars(filename)
        extension == Extension(s)
    IN IF extension \in SourceExtensions THEN Category("Source", extension)
       ELSE IF is_config_file(s) THEN Category("Configuration", <<>>)
       ELSE IF is_documentation_file(s) THEN Category("Documentation", <<>>)
       ELSE IF is_test_file(s) THEN Category("Test", <<>>)
       ELSE Category("Unknown", <<>>)

----------------------------------------------------------------------------
(* RepositoryAnalyzer *)

\* The size above which process_file skips a file.
SizeCeiling == 1000000

\* `let branches = ["main", "master"]`
branches == <<"main", "master">>

\* A GithubContent of a listing: its name, type and size; its path is the
\* path of the listed directory and the name.
Entry(name, type, size) == [name |-> name, type |-> type, size |-> size]

\* The entries the listings are made of, in the order of their names, which
\* is the order of a listing: a configuration file, a documentation file at
\* the ceiling, a file above the ceiling, a file of no category, an entry of
\* another type, a Rust file, a directory and a test file.
Entries ==
    << Entry("Cargo.toml", "file", 10), Entry("README.md", "file", SizeCeiling),
       Entry("big.rs", "file", SizeCeiling + 1), Entry("data.bin", "file", 10),
       Entry("link", "symlink", 0), Entry("main.rs", "file", 10),
       Entry("src", "dir", 0), Entry("test_notes.txt", "file", 10) >>

\* content.path
Join(path, name) == IF path = <<>> THEN Chars(name) ELSE path \o <<"/">> \o Chars(name)

\* str::replace(str, ""): the occurrences of str are dropped, left to right.
RECURSIVE Without(_, _)
Without(s, str) ==
    IF s = <<>> THEN <<>>
    ELSE IF StartsWith(s, str) THEN Without(SubSeq(s, Len(str) + 1, Len(s)), str)
    ELSE <<s[1]>> \o Without(SubSeq(s, 2, Len(s)), str)

\* The matches of the characters t in s from position k on, counted from
\* left to right, the next one looked for after the end of the last.
RECURSIVE MatchesFrom(_, _, _)
MatchesFrom(s, t, k) ==
    IF k + Len(t) - 1 > Len(s) THEN 0
    ELSE IF \A q \in 1..Len(t) : s[k + q - 1] = t[q] THEN 1 + MatchesFrom(s, t, k + Len(t))
    ELSE MatchesFrom(s, t, k + 1)

\* str::matches(str).count()
Matches(s, str) == MatchesFrom(s, Chars(str), 1)

\* Of the errors a get_with_retry call can return without a body, the one
\* that is followed.
GetErrors == { NetworkError("status") }

\* What a get_with_retry call on a listing can come back with: an error, or
\* a body that is an array of entries, one entry, or neither.
ListReplies ==
    [kind : {"error"}, error : GetErrors] \cup [kind : {"body"}, body : {"array", "object", "other"}]

\* What a get_with_retry call on a file can come back with: an error, a body
\* that is no GithubContent, or one with its content (base64 of one of two
\* texts, no base64, base64 of bytes that are no UTF-8, or none) and its
\* encoding.
FileReplies ==
    [kind : {"error"}, error : GetErrors]
    \cup {[kind |-> "body", body |-> "other"]}
    \cup [kind : {"body"}, body : {"object"},
          content : {"none", "text", "text with tests", "not base64", "not utf8"},
          encoding : {"none", "base64", "utf-8"}]

\* The replies to the fetch of a file of this name: the text with tests is
\* the content of Rust files only.
RepliesFor(name) ==
    { reply \in FileReplies :
        (reply.kind = "body" /\ reply.body = "object" /\ reply.content = "text with tests")
            => Extension(Chars(name)) = Chars("rs") }

\* The file that is not fetched.
NoReply == [kind |-> "none"]

\* A result that carries a value.
OkWith(value) == [kind |-> "Ok", value |-> value]

\* get_with_retry::<T> for a reply: response.json::<T>() on a body.
GetWithRetry(T, reply) ==
    IF reply.kind = "error" THEN Err(reply.error)
    ELSE IF reply.body = T THEN Ok
    ELSE Err(ParseError("json"))

\* The text the content "text" stands for.
FetchedText == << Chars("pub struct Foo;"), Chars("fn help() {") >>

\* get_file_content
GetFileContent(reply) ==
    LET got == GetWithRetry("object", reply)
    IN IF got.kind = "Err" THEN got
       ELSE IF reply.content # "none" /\ reply.encoding = "base64"
       THEN IF reply.content = "not base64" THEN Err(ParseError("base64"))
            ELSE IF reply.content = "not utf8" THEN Err(ParseError("utf8"))
            ELSE IF reply.content = "text with tests" THEN OkWith(TextWithTests)
            ELSE OkWith(FetchedText)
       ELSE Err(ParseError("Content or encoding unavailable"))

\* The ProjectSummary try_analyze_branch starts with. Of the project
\* overview the counters and main_modules are followed; primary_language is
\* a Vec of no or one language.
NewSummary(branch) ==
    [ files_analyzed |-> <<>>, total_files |-> 0, file_summaries |-> <<>>,
      total_rust_files |-> 0, total_public_types |-> 0, total_public_functions |-> 0,
      total_tests |-> 0, main_modules |-> <<>>, has_src_directory |-> FALSE,
      has_tests |-> FALSE, has_docs |-> FALSE, primary_language |-> <<>>,
      build_systems |-> <<>>, branch_analyzed |-> branch ]

\* Vec::push unless Vec::contains
PushNew(vec, x) == IF x \in Range(vec) THEN vec ELSE Append(vec, x)

\* The first part of process_directory.
EnterDirectory(ps, path) ==
    IF StartsWith(path, "src/")
    THEN LET module_name == Without(Without(path, "src/"), ".rs")
         IN [ps EXCEPT !.main_modules =
                           IF module_name # <<>> THEN PushNew(@, module_name) ELSE @,
                       !.has_src_directory = TRUE]
    ELSE ps

update_build_systems(ps, filename) ==
    LET systems == [n \in {"Cargo.toml", "package.json", "go.mod", "pom.xml", "build.gradle",
                           "CMakeLists.txt"} |->
                      CASE n = "Cargo.toml" -> "Rust/Cargo"
                        [] n = "package.json" -> "Node.js/npm"
                        [] n = "go.mod" -> "Go/modules"
                        [] n = "pom.xml" -> "Java/Maven"
                        [] n = "build.gradle" -> "Java/Gradle"
                        [] OTHER -> "C++/CMake"]
    IN IF filename \in DOMAIN systems
       THEN [ps EXCEPT !.build_systems = PushNew(@, systems[filename])]
       ELSE ps

update_project_structure(ps, entry, path, category) ==
    CASE category.kind = "Source" ->
            IF StartsWith(path, "src/") THEN [ps EXCEPT !.has_src_directory = TRUE] ELSE ps
      [] category.kind = "Test" -> [ps EXCEPT !.has_tests = TRUE]
      [] category.kind = "Documentation" -> [ps EXCEPT !.has_docs = TRUE]
      [] category.kind = "Configuration" -> update_build_systems(ps, entry.name)
      [] OTHER -> ps

\* The sum of str::matches(str).count() over the lines of a summary.
RECURSIVE MatchesIn(_, _, _)
MatchesIn(lines, str, k) ==
    IF k > Len(lines) THEN 0 ELSE Matches(lines[k], str) + MatchesIn(lines, str, k + 1)

\* Mutant: the tests are counted in the first lines of the file only.
update_rust_stats_FirstLines(ps, file_summary) ==
    [ps EXCEPT
        !.total_public_types = @ + MatchesIn(file_summary, "Public struct: ", 1)
                                 + MatchesIn(file_summary, "Public enum: ", 1)
                                 + MatchesIn(file_summary, "Public trait: ", 1),
        !.total_public_functions =
            @ + Cardinality({ k \in DOMAIN file_summary :
                                 Contains(file_summary[k], "Public method: ") }),
        !.total_tests =
            @ + MatchesIn(SubSeq(file_summary, 1,
                                 IF Len(file_summary) < 6 THEN Len(file_summary) ELSE 6),
                          "Unit test: ", 1)]

\* The counters of update_rust_stats.
update_rust_stats(ps, file_summary) ==
    [ps EXCEPT
        !.total_public_types = @ + MatchesIn(file_summary, "Public struct: ", 1)
                                 + MatchesIn(file_summary, "Public enum: ", 1)
                                 + MatchesIn(file_summary, "Public trait: ", 1),
        !.total_public_functions =
            @ + Cardinality({ k \in DOMAIN file_summary :
                                 Contains(file_summary[k], "Public method: ") }),
        !.total_tests = @ + MatchesIn(file_summary, "Unit test: ", 1)]

update_project_summary(ps, entry, path, file_summary, category) ==
    LET counted == IF category.kind = "Source" /\ category.lang = Chars("rs")
                   THEN update_rust_stats([ps EXCEPT !.total_rust_files = @ + 1], file_summary)
                   ELSE ps
    IN [counted EXCEPT !.file_summaries =
            Append(@, [path |-> path, size |-> entry.size, summary |-> file_summary,
                       category |-> category])]

\* Mutant: a file at the ceiling is skipped, too.
TooBig_AtCeiling(size) == size >= SizeCeiling

\* `content.size > 1000000`
TooBig(size) == size > SizeCeiling

\* Mutant: every category is fetched.
Fetches_Any(category) == TRUE

\* `matches!(category, Source(_) | Configuration | Documentation)`
Fetches(category) == category.kind \in {"Source", "Configuration", "Documentation"}

\* Mutant: the error of the fetch is returned.
ProcessFileResult_Propagates(fetch) == IF fetch.kind = "Err" THEN fetch ELSE Ok

\* What process_file returns after the fetch: `if let Ok(..)` drops the error.
ProcessFileResult(fetch) == Ok

\* What a call returned, as the record of an attempt keeps it: Ok or the
\* variant of the error.
Kind(got) == IF got.kind = "Err" THEN got.error.kind ELSE got.kind

\* The record of one attempt: its branch, the entries its listings gave, the
\* get_with_retry and get_file_content calls it made with what they
\* returned, the paths and the texts given to analyze_content, and the error
\* it ended with.
NewAttempt(branch) ==
    [branch |-> branch, visited |-> <<>>, calls |-> <<>>, analyzed |-> <<>>, texts |-> <<>>,
     error |-> NoError]

\* process_file on an entry whose fetch, if it is made, gets `reply`: the
\* summary and the record afterwards, and what it returns.
ProcessFile(ps, attempt, entry, path, reply) ==
    IF TooBig(entry.size) THEN [summary |-> ps, attempt |-> attempt, result |-> Ok]
    ELSE LET category == categorize_file(entry.name)
             structured == update_project_structure(ps, entry, path, category)
             fetch == IF Fetches(category) THEN GetFileContent(reply) ELSE NoResult
             summarized ==
                 IF fetch.kind = "Ok"
                 THEN update_project_summary(structured, entry, path, SummaryOf(fetch.value),
                                             category)
                 ELSE structured
         IN [summary |-> [summarized EXCEPT !.files_analyzed = Append(@, path)],
             attempt |-> [attempt EXCEPT
                             !.calls = IF Fetches(category)
                                       THEN Append(@, [op |-> "file", path |-> path,
                                                       result |-> Kind(fetch)])
                                       ELSE @,
                             !.analyzed = IF fetch.kind = "Ok" THEN Append(@, path) ELSE @,
                             !.texts = IF fetch.kind = "Ok" THEN Append(@, fetch.value)
                                       ELSE @],
             result |-> IF Fetches(category) THEN ProcessFileResult(fetch) ELSE Ok]

\* finalize_analysis: the languages counted most often.
Languages(ps) ==
    { ps.file_summaries[k].category.lang :
        k \in { j \in DOMAIN ps.file_summaries : ps.file_summaries[j].category.kind = "Source" } }

CountOf(ps, lang) ==
    Cardinality({ k \in DOMAIN ps.file_summaries :
                     /\ ps.file_summaries[k].category.kind = "Source"
                     /\ ps.file_summaries[k].category.lang = lang })

MostUsed(ps) ==
    { lang \in Languages(ps) : \A other \in Languages(ps) : CountOf(ps, other) <= CountOf(ps, lang) }

\* Mutant: the first error is kept.
LastError_First(old, e) == IF old = NoError THEN e ELSE old

\* `Err(e) => last_error = Some(e)`
LastError(old, e) == e

\* The number of entries the listings of this call have given.
EntriesSeen ==
    LET seen(k) == IF k \in DOMAIN attempts THEN Len(attempts[k].visited) ELSE 0
    IN seen(1) + seen(2)

\* analyze is called.
AnalyzeRepository ==
    /\ rpc = "idle"
    /\ rpc' = "branch"
    /\ branch_index' = 1
    /\ analyze_last_error' = NoError
    /\ UNCHANGED <<project_summary, stack, attempts, outcome>>
    /\ UNCHANGED <<relationVars, extractVars, clientVars, exportVars, purityVars>>

\* try_analyze_branch up to its call of analyze_directory("").
TryAnalyzeBranch ==
    /\ rpc = "branch"
    /\ project_summary' = NewSummary(branches[branch_index])
    /\ attempts' = Append(attempts, NewAttempt(branches[branch_index]))
    /\ stack' = << [path |-> <<>>, state |-> "call", at |-> 0, single |-> FALSE] >>
    /\ rpc' = "walk"
    /\ UNCHANGED <<branch_index, analyze_last_error, outcome>>
    /\ UNCHANGED <<relationVars, extractVars, clientVars, exportVars, purityVars>>

\* An error leaves analyze_directory: every open call returns it through
\* `?`, try_analyze_branch returns it and analyze goes to the next branch or,
\* after the last, returns last_error.
AttemptFails(attempt, e) ==
    /\ attempts' = [attempts EXCEPT ![Len(attempts)] = [attempt EXCEPT !.error = e]]
    /\ analyze_last_error' = LastError(analyze_last_error, e)
    /\ project_summary' = NoSummary
    /\ stack' = <<>>
    /\ IF branch_index = Len(branches)
       THEN /\ outcome' = Err(LastError(analyze_last_error, e))
            /\ rpc' = "done"
            /\ UNCHANGED branch_index
       ELSE /\ branch_index' = branch_index + 1
            /\ rpc' = "branch"
            /\ UNCHANGED outcome

\* get_repo_contents at the start of analyze_directory: the request for an
\* array and, after any error of it, the request for a single item.
ListDirectory ==
    /\ rpc = "walk"
    /\ stack[Len(stack)].state = "call"
    /\ LET frame == stack[Len(stack)]
           attempt == attempts[Len(attempts)]
           Listing(got) == [op |-> "list", path |-> frame.path, result |-> Kind(got)]
       IN \E first \in ListReplies :
             LET as_array == GetWithRetry("array", first)
             IN IF as_array.kind = "Ok"
                THEN /\ stack' = [stack EXCEPT ![Len(stack)].state = "loop"]
                     /\ attempts' = [attempts EXCEPT ![Len(attempts)].calls =
                                        Append(@, Listing(as_array))]
                     /\ UNCHANGED <<rpc, branch_index, analyze_last_error, project_summary,
                                    outcome>>
                ELSE \E second \in ListReplies :
                        LET as_item == GetWithRetry("object", second)
                            called == [attempt EXCEPT !.calls =
                                          @ \o <<Listing(as_array), Listing(as_item)>>]
                        IN IF as_item.kind = "Ok"
                           THEN /\ EntriesSeen < MaxEntries
                                /\ stack' = [stack EXCEPT ![Len(stack)].state = "loop",
                                                          ![Len(stack)].single = TRUE]
                                /\ attempts' = [attempts EXCEPT ![Len(attempts)] = called]
                                /\ UNCHANGED <<rpc, branch_index, analyze_last_error,
                                               project_summary, outcome>>
                           ELSE AttemptFails(called, as_item.error)
    /\ UNCHANGED <<relationVars, extractVars, clientVars, exportVars, purityVars>>

\* One turn of `for content in contents`: the next entry of the listing is
\* drawn as the loop reaches it, from the entries after the last one.
ProcessEntry ==
    /\ rpc = "walk"
    /\ stack[Len(stack)].state = "loop"
    /\ EntriesSeen < MaxEntries
    /\ LET frame == stack[Len(stack)]
           attempt == attempts[Len(attempts)]
       IN /\ frame.single => frame.at = 0
          /\ \E k \in (frame.at + 1)..Len(Entries) :
                   LET entry == Entries[k]
                       path == Join(frame.path, entry.name)
                       seen == [attempt EXCEPT !.visited =
                                   Append(@, [path |-> path, name |-> entry.name,
                                              type |-> entry.type, size |-> entry.size])]
                       here == [stack EXCEPT ![Len(stack)].at = k]
                   IN CASE entry.type = "dir" ->
                             /\ project_summary' = EnterDirectory(project_summary, path)
                             /\ stack' = Append(here, [path |-> path, state |-> "call",
                                                       at |-> 0, single |-> FALSE])
                             /\ attempts' = [attempts EXCEPT ![Len(attempts)] = seen]
                             /\ UNCHANGED <<rpc, branch_index, analyze_last_error, outcome>>
                        [] entry.type = "file" ->
                             \E reply \in IF ~TooBig(entry.size)
                                             /\ Fetches(categorize_file(entry.name))
                                          THEN RepliesFor(entry.name) ELSE {NoReply} :
                                LET done == ProcessFile(project_summary, seen, entry, path, reply)
                                IN IF done.result.kind = "Ok"
                                   THEN /\ project_summary' = done.summary
                                        /\ stack' = here
                                        /\ attempts' = [attempts EXCEPT ![Len(attempts)] =
                                                           done.attempt]
                                        /\ UNCHANGED <<rpc, branch_index, analyze_last_error,
                                                       outcome>>
                                   ELSE AttemptFails(done.attempt, done.result.error)
                        [] OTHER ->
                             /\ stack' = here
                             /\ attempts' = [attempts EXCEPT ![Len(attempts)] = seen]
                             /\ UNCHANGED <<rpc, branch_index, analyze_last_error,
                                            project_summary, outcome>>
    /\ UNCHANGED <<relationVars, extractVars, clientVars, exportVars, purityVars>>

\* The loop of analyze_directory is over: the call returns Ok to the loop of
\* the directory above or, from the root, to try_analyze_branch, which
\* finalizes the summary and returns it to analyze, which returns it.
ReturnDirectory ==
    /\ rpc = "walk"
    /\ stack[Len(stack)].state = "loop"
    /\ stack[Len(stack)].single => stack[Len(stack)].at > 0
    /\ stack' = SubSeq(stack, 1, Len(stack) - 1)
    /\ IF Len(stack) = 1
       THEN \E primary \in IF MostUsed(project_summary) = {} THEN {<<>>}
                           ELSE { <<lang>> : lang \in MostUsed(project_summary) } :
               LET final == [project_summary EXCEPT
                                !.total_files = Len(project_summary.files_analyzed),
                                !.primary_language = primary]
               IN /\ project_summary' = final
                  /\ outcome' = OkWith(final)
                  /\ rpc' = "done"
       ELSE UNCHANGED <<rpc, project_summary, outcome>>
    /\ UNCHANGED <<branch_index, analyze_last_error, attempts>>
    /\ UNCHANGED <<relationVars, extractVars, clientVars, exportVars, purityVars>>

NextCrawl == AnalyzeRepository \/ TryAnalyzeBranch \/ ListDirectory \/ ProcessEntry \/ ReturnDirectory

SpecCrawl == Init /\ [][NextCrawl]_vars

----------------------------------------------------------------------------
(* categorize_file and analyze_content, call after call *)

\* The texts analyze_content is called on more than once: without a type,
\* with one dependency, with a type that depends on two, and the same types
\* in another order.
PurityFiles ==
    { <<>>,
      << Chars("pub fn get<T>(a: &Foo) -> Bar {"), Chars("pub const MAX: usize = 10;") >>,
      << Chars("pub struct Foo {"), Chars("    bar: Bar,"), Chars("struct Bar;") >>,
      << Chars("struct Bar;"), Chars("pub struct Foo {"), Chars("    bar: Bar,") >>,
      << Chars("pub struct Foo {"), Chars("struct Bar;"), Chars("struct Baz {"),
         Chars("    a: Foo, b: Bar,") >>,
      << Chars("struct Baz {"), Chars("    a: Foo, b: Bar,"), Chars("pub struct Foo {"),
         Chars("    bar: Bar,"), Chars("struct Bar;") >> }

\* The file names categorize_file is called on.
FileNames ==
    { "main.rs", "foo_test.go", "test_utils.py", "Cargo.toml", "Makefile", "README.md",
      "LICENSE", "test_notes.txt", "data.bin", ".gitignore", "notes.md.bak", "testing.md",
      "user_spec.rb", "contest.c" }

\* Mutant: processed_types is kept from call to call.
NewProcessedTypes_Kept(old) == old

\* `let mut processed_types = HashSet::new()`: the set of the next call.
NewProcessedTypes(old) == {}

\* A call that returned.
CallOf(fn, input, output) == [kind |-> "call", fn |-> fn, input |-> input, output |-> output]

\* The tuple analyze_content returns.
Returned == << summary, relations, signatures, configuration >>

\* analyze_content returns its tuple; all it worked on were locals, which the
\* next call creates anew. The call may be the one that is kept.
ReturnContent ==
    /\ pc = "returned"
    /\ caller = "analyze_content"
    /\ earlier' \in {earlier, CallOf("analyze_content", text, Returned)}
    /\ pc' = "idle"
    /\ caller' = "none"
    /\ content' = <<>>
    /\ i' = 1
    /\ project_types' = {}
    /\ current_type' = None
    /\ dependencies' = {}
    /\ traits_map' = [k \in {} |-> <<>>]
    /\ usage_map' = EmptyMap
    /\ processed_types' = NewProcessedTypes(processed_types)
    /\ relations' = <<>>
    /\ deps_graph' = EmptyMap
    /\ users_graph' = EmptyMap
    /\ changed' = FALSE
    /\ passes' = 0
    /\ text' = <<>>
    /\ summary' = <<>>
    /\ signatures' = <<>>
    /\ configuration' = EmptyConfiguration
    /\ UNCHANGED <<categorized, clientVars, exportVars, crawlVars>>

\* A call of categorize_file, at any point of a call of analyze_content or
\* between two. The call may be the one that is kept.
CategorizeFile ==
    /\ \E filename \in FileNames :
          LET call == CallOf("categorize_file", filename, categorize_file(filename))
          IN /\ categorized' = call
             /\ earlier' \in {earlier, call}
    /\ UNCHANGED <<relationVars, extractVars, clientVars, exportVars, crawlVars>>

NextPurity == AnalyzeContent(PurityFiles) \/ ContentSteps \/ ReturnContent \/ CategorizeFile

SpecPurity == Init /\ [][NextPurity]_vars

----------------------------------------------------------------------------
(* ProjectExporter *)

\* DELIMITER, cut at its two `{}`.
DELIMITER ==
    << "\n<document>\n<source>", "{}", "</source>\n<document_content>\n", "{}",
       "\n</document_content>\n</document>\n" >>

CHUNK_SIZE == 5

\* str::replace: every occurrence of `from` becomes `to`.
Replace(pieces, from, to) ==
    [k \in DOMAIN pieces |-> IF pieces[k] = from THEN to ELSE pieces[k]]

\* The (filename, content) pairs add_file is called with.
ExportedFiles == { <<"a.rs", "fn a() {}">>, <<"b.rs", "fn b() {}">> }

\* chunk_content of write_chunk for the files from the k-th of the buffer on.
RECURSIVE ChunkContent(_, _)
ChunkContent(files, k) ==
    IF k > Len(files) THEN <<>>
    ELSE Replace(DELIMITER, "{}", files[k][1]) \o <<files[k][2]>>
         \o ChunkContent(files, k + 1)

\* How the writing of a file can go: all of it, none of it (the directory or
\* the file cannot be created), or a part of it (write_all fails on the way).
\* Of the partial writes, the shortest and the longest are followed.
WriteOutcomes(data) ==
    {[kind |-> "ok"], [kind |-> "fail"]}
    \cup { [kind |-> "partial", n |-> n] : n \in {0, Len(data) - 1} \ {-1} }

\* Mutant: the buffer is cleared when the write fails, too.
Cleared_Always(files, how) == <<>>

\* current_files after write_chunk: cleared only after the write.
Cleared(files, how) == IF how.kind = "ok" THEN <<>> ELSE files

\* write_chunk: its result and what it leaves in the buffer, the counter and
\* the chunks directory.
WriteChunk(files, counter, disk, how) ==
    IF files = <<>>
    THEN [ok |-> TRUE, current_files |-> files, chunk_counter |-> counter, chunks |-> disk]
    ELSE LET data == ChunkContent(files, 1)
         IN [ok |-> how.kind = "ok",
             current_files |-> Cleared(files, how),
             chunk_counter |-> IF how.kind = "ok" THEN counter + 1 ELSE counter,
             chunks |-> CASE how.kind = "ok" -> Put(disk, counter, data)
                          [] how.kind = "partial" -> Put(disk, counter, SubSeq(data, 1, how.n))
                          [] OTHER -> disk]

\* ProjectExporter::new
NewExporter ==
    /\ epc = "none"
    /\ epc' = "open"
    /\ current_files' = <<>>
    /\ chunk_counter' = 0
    /\ UNCHANGED <<chunks, written, index_content, added, add_result, finish_result>>
    /\ UNCHANGED <<relationVars, extractVars, clientVars, crawlVars, purityVars>>

\* write_summary: analysis.json is written, or the write fails.
WriteSummary ==
    /\ epc = "open"
    /\ "analysis.json" \notin written
    /\ \E ok \in BOOLEAN : written' = IF ok THEN written \cup {"analysis.json"} ELSE written
    /\ UNCHANGED <<epc, current_files, chunk_counter, chunks, index_content, added,
                   add_result, finish_result>>
    /\ UNCHANGED <<relationVars, extractVars, clientVars, crawlVars, purityVars>>

\* add_file
AddFile ==
    /\ epc = "open"
    /\ Len(added) < MaxAdds
    /\ \E file \in ExportedFiles :
          LET pushed == Append(current_files, file)
          IN /\ added' = Append(added, file)
             /\ IF Len(pushed) >= CHUNK_SIZE
                THEN \E how \in WriteOutcomes(ChunkContent(pushed, 1)) :
                        LET w == WriteChunk(pushed, chunk_counter, chunks, how)
                        IN /\ current_files' = w.current_files
                           /\ chunk_counter' = w.chunk_counter
                           /\ chunks' = w.chunks
                           /\ add_result' = IF w.ok THEN Ok ELSE Err("io")
                ELSE /\ current_files' = pushed
                     /\ add_result' = Ok
                     /\ UNCHANGED <<chunk_counter, chunks>>
    /\ UNCHANGED <<epc, written, index_content, finish_result>>
    /\ UNCHANGED <<relationVars, extractVars, clientVars, crawlVars, purityVars>>

\* The chunks 0..n-1 that can be read, one after the other.
RECURSIVE ChunksInOrder(_, _, _)
ChunksInOrder(disk, k, n) ==
    IF k >= n THEN <<>>
    ELSE (IF k \in DOMAIN disk THEN disk[k] ELSE <<>>) \o ChunksInOrder(disk, k + 1, n)

\* index_content of finish.
IndexContent(disk, n, files) ==
    <<"\n<document>\n<source>analysis.json</source>\n<document_content>\n">>
    \o (IF "analysis.json" \in files THEN <<"analysis.json">> ELSE <<>>)
    \o <<"\n</document_content>\n</document>\n">>
    \o ChunksInOrder(disk, 0, n)

\* finish: the last chunk, the index, the README; the exporter is consumed.
Finish ==
    /\ epc = "open"
    /\ epc' = "finished"
    /\ \E how \in WriteOutcomes(ChunkContent(current_files, 1)), index_ok, readme_ok \in BOOLEAN :
          LET w == WriteChunk(current_files, chunk_counter, chunks, how)
          IN /\ current_files' = w.current_files
             /\ chunk_counter' = w.chunk_counter
             /\ chunks' = w.chunks
             /\ IF ~w.ok
                THEN /\ finish_result' = Err("io")
                     /\ UNCHANGED <<written, index_content>>
                ELSE IF ~index_ok
                THEN /\ finish_result' = Err("io")
                     /\ UNCHANGED <<written, index_content>>
                ELSE /\ index_content' = IndexContent(w.chunks, w.chunk_counter, written)
                     /\ written' = written \cup {"complete_analysis.txt"}
                                       \cup (IF readme_ok THEN {"README.md"} ELSE {})
                     /\ finish_result' = IF readme_ok THEN Ok ELSE Err("io")
    /\ UNCHANGED <<added, add_result>>
    /\ UNCHANGED <<relationVars, extractVars, clientVars, crawlVars, purityVars>>

NextExport == NewExporter \/ WriteSummary \/ AddFile \/ Finish

SpecExport == Init /\ [][NextExport]_vars

----------------------------------------------------------------------------
(* What the file says, read off its lines *)

\* The names the file declares.
DeclaredNames == { n \in Names : \E k \in DOMAIN content : content[k].decl = n }

\* Line k is the first declaration line of its type.
IsFirstDecl(k) ==
    /\ content[k].decl # None
    /\ \A j \in 1..(k - 1) : content[j].decl # content[k].decl

\* Line k declares a type that an earlier line declared already.
IsRedecl(k) == content[k].decl # None /\ ~IsFirstDecl(k)

\* The type whose first declaration is the last one at or before line k.
Owner(k) ==
    LET firsts == { j \in 1..k : IsFirstDecl(j) }
    IN IF firsts = {} THEN None
       ELSE content[CHOOSE j \in firsts : \A m \in firsts : m <= j].decl

\* The relations recorded for type t, and the names in their lists.
RelationsOf(t) == { k \in DOMAIN relations : relations[k].type_name = t }
DependsOnOf(t) == UNION { Range(relations[k].depends_on) : k \in RelationsOf(t) }
UsedByOf(t) == UNION { Range(relations[k].used_by) : k \in RelationsOf(t) }

\* The edges (type, dependency) a relation list holds.
EdgesOf(rels) ==
    UNION { { <<rels[k].type_name, d>> : d \in Range(rels[k].depends_on) } :
              k \in DOMAIN rels }

Successors(E, S) == { y \in Names : \E x \in S : <<x, y>> \in E }

RECURSIVE GrowReach(_, _, _)
GrowReach(E, S, n) ==
    IF n = 0 THEN S ELSE GrowReach(E, S \cup Successors(E, S), n - 1)

\* The types reachable from t through one or more edges of E.
Reachable(E, t) == GrowReach(E, Successors(E, {t}), Cardinality(Names))

----------------------------------------------------------------------------
(* C1 *)

\* C1: analyze_type_relations returns exactly one relation for every name a
\* line of the file declares and none for any other name, however often and
\* in whatever order the names are declared again.
C1_OneRelationPerDeclaredType ==
    pc = "done" =>
        \A n \in Names :
            Cardinality(RelationsOf(n)) = (IF n \in DeclaredNames THEN 1 ELSE 0)

\* A finished analysis of a file that declares a type, then another one, then
\* the first one again.
C1_Witness ==
    /\ pc = "done"
    /\ \E a, b, c \in DOMAIN content :
          /\ a < b /\ b < c
          /\ content[a].decl # None
          /\ content[c].decl = content[a].decl
          /\ content[b].decl \notin {None, content[a].decl}

----------------------------------------------------------------------------
(* C2 *)

\* C2: the step that ends build_type_relations leaves in every relation a
\* depends_on holding exactly the types reachable from it through one or more
\* of the dependency edges the relations held before, and a used_by holding
\* exactly the types it is reachable from.
C2_ClosureIsReachability ==
    [][(pc = "relax" /\ pc' = "done") =>
          \A k \in DOMAIN relations' :
             LET n == relations'[k].type_name
                 E == EdgesOf(relations)
             IN /\ Range(relations'[k].depends_on) = Reachable(E, n)
                /\ Range(relations'[k].used_by) = { t \in Names : n \in Reachable(E, t) }]_vars

\* A finished analysis in which a type depends on another one only through a
\* third: no line of its context mentions it.
C2_Witness ==
    /\ pc = "done"
    /\ \E t \in DeclaredNames :
          \E d \in DependsOnOf(t) :
             /\ d # t
             /\ \A k \in DOMAIN content : Owner(k) = t => d \notin content[k].refs
             /\ t \in UsedByOf(d)

----------------------------------------------------------------------------
(* C3 *)

\* The number of elements over all the sets of a graph.
RECURSIVE SizeOver(_, _)
SizeOver(graph, keys) ==
    IF keys = {} THEN 0
    ELSE LET k == CHOOSE x \in keys : TRUE
         IN Cardinality(graph[k]) + SizeOver(graph, keys \ {k})

GraphSize(graph) == SizeOver(graph, DOMAIN graph)

\* Every set of graph g is within the same set of graph h.
GraphWithin(g, h) ==
    /\ DOMAIN g \subseteq DOMAIN h
    /\ \A k \in DOMAIN g : g[k] \subseteq h[k]

RelationNames == { relations[k].type_name : k \in DOMAIN relations }

\* C3: the relaxation loop terminates on every relation list, cyclic graphs
\* included. From a state of the loop the next step is a pass or the exit. A
\* pass only adds elements to the sets, leaves every set within the names of
\* the relations, and asks for another pass exactly when it added an element:
\* so at most 2 * n * n + 1 passes run on n relations (never as many as the
\* model's cap allows), and the exit is taken right after the first pass that
\* added nothing.
C3_RelaxationTerminates ==
    [][pc = "relax" =>
         \/ /\ pc' = "relax"
            /\ passes' = passes + 1
            /\ GraphWithin(deps_graph, deps_graph')
            /\ GraphWithin(users_graph, users_graph')
            /\ \A k \in DOMAIN deps_graph' : deps_graph'[k] \subseteq RelationNames
            /\ \A k \in DOMAIN users_graph' : users_graph'[k] \subseteq RelationNames
            /\ changed' <=> (GraphSize(deps_graph') + GraphSize(users_graph')
                               > GraphSize(deps_graph) + GraphSize(users_graph))
            /\ passes' <= 2 * Len(relations) * Len(relations) + 1
            /\ changed' => passes' < MaxPasses
         \/ /\ pc' = "done"
            /\ ~changed
            /\ passes >= 1]_vars

\* The loop has ended on a cyclic graph: a type is in its own closure, after
\* at least three passes.
C3_Witness ==
    /\ pc = "done"
    /\ passes >= 3
    /\ \E t \in DeclaredNames : t \in DependsOnOf(t)

----------------------------------------------------------------------------
(* C4 *)

\* Lines a < b both declare Foo, the first mentions Bar and the second Baz.
FooTwice(a, b) ==
    /\ a < b
    /\ content[a].decl = "Foo" /\ "Bar" \in content[a].refs
    /\ content[b].decl = "Foo" /\ "Baz" \in content[b].refs

\* The output holds one Foo relation, and it depends on Bar and Baz exactly.
OneFooOnBarBaz ==
    /\ Cardinality(RelationsOf("Foo")) = 1
    /\ DependsOnOf("Foo") = {"Bar", "Baz"}

\* C4 as stated: in a file that declares Foo, Bar and Baz, where a declaration
\* line of Foo that mentions Bar comes before a declaration line of Foo that
\* mentions Baz and no other line mentions a type, whatever lies in between,
\* the output holds one Foo relation with depends_on = {Bar, Baz}.
C4_AsStated ==
    (/\ pc = "done"
     /\ DeclaredNames = {"Foo", "Bar", "Baz"}
     /\ \E a, b \in DOMAIN content :
           /\ FooTwice(a, b)
           /\ \A k \in DOMAIN content \ {a, b} : content[k].refs = {})
    => OneFooOnBarBaz

\* C4 amended: the same, when no other type is declared for the first time
\* between the first declaration of Foo and the second of the two lines (both
\* lines are in the context of Foo) and no line in the context of Bar or of
\* Baz mentions another declared type.
C4_FooContextOpen ==
    (/\ pc = "done"
     /\ DeclaredNames = {"Foo", "Bar", "Baz"}
     /\ \E a, b \in DOMAIN content :
           FooTwice(a, b) /\ Owner(a) = "Foo" /\ Owner(b) = "Foo"
     /\ \A k \in DOMAIN content :
           Owner(k) \in {"Bar", "Baz"} => content[k].refs \subseteq {Owner(k)})
    => OneFooOnBarBaz

\* A finished analysis of such a file, which declares Bar before Foo.
C4_Witness ==
    /\ pc = "done"
    /\ DeclaredNames = {"Foo", "Bar", "Baz"}
    /\ \E a, b \in DOMAIN content :
          FooTwice(a, b) /\ Owner(a) = "Foo" /\ Owner(b) = "Foo" /\ a > 1
    /\ \A k \in DOMAIN content :
          Owner(k) \in {"Bar", "Baz"} => content[k].refs \subseteq {Owner(k)}
    /\ OneFooOnBarBaz

----------------------------------------------------------------------------
(* C5 *)

\* The lines from a re-declaration line of t up to the next first declaration
\* of a type: line k is one of them.
InRedeclRegion(t, k) ==
    \E j \in 1..k :
        /\ content[j].decl = t
        /\ IsRedecl(j)
        /\ \A m \in (j + 1)..k : ~IsFirstDecl(m)

\* The declared types line k mentions, but for type t.
MentionedBut(k, t) == (content[k].refs \cap DeclaredNames) \ {t}

\* C5 as stated: the types mentioned on a re-declaration line of T and on the
\* lines after it are in the record of T, whichever type was declared between
\* the first declaration of T and the re-declaration.
C5_AsStated ==
    pc \in {"build", "done"} =>
        \A t \in DeclaredNames : \A k \in DOMAIN content :
            InRedeclRegion(t, k) => MentionedBut(k, t) \subseteq DependsOnOf(t)

\* C5 amended: they are in the record of the type whose context is open on
\* those lines, the type declared for the first time last before them; before
\* the closure step the record of T holds only what lines of its own context
\* mention, so it holds them when no new type was declared in between.
C5_FoldedIntoOpenContext ==
    /\ pc \in {"build", "done"} =>
          \A t \in DeclaredNames : \A k \in DOMAIN content :
              InRedeclRegion(t, k) =>
                  MentionedBut(k, Owner(k)) \subseteq DependsOnOf(Owner(k))
    /\ pc = "build" =>
          \A t \in DeclaredNames :
              DependsOnOf(t) \subseteq
                  UNION { content[k].refs : k \in { j \in DOMAIN content : Owner(j) = t } }

\* The scan has ended on a file in which T is declared again in the context
\* of another type U, on a line that mentions a third declared type.
C5_Witness ==
    /\ pc = "build"
    /\ \E t \in DeclaredNames : \E k \in DOMAIN content :
          /\ content[k].decl = t /\ IsRedecl(k)
          /\ Owner(k) # t
          /\ MentionedBut(k, t) \ {Owner(k)} # {}
          /\ MentionedBut(k, t) \subseteq DependsOnOf(Owner(k))

----------------------------------------------------------------------------
(* C6 and C7: derive annotations *)

\* The positions of the commas of a text, and the position of its n-th comma
\* (0 before the first one, one past the end after the last one).
CommasOf(s) == { q \in 1..Len(s) : s[q] = "," }

NthComma(s, n) ==
    IF n = 0 THEN 0
    ELSE IF n > Cardinality(CommasOf(s)) THEN Len(s) + 1
    ELSE CHOOSE q \in CommasOf(s) : Cardinality({ c \in CommasOf(s) : c <= q }) = n

\* A text without the blanks at its two ends.
Trimmed(s) ==
    LET inked == { q \in 1..Len(s) : s[q] # " " }
    IN IF inked = {} THEN <<>>
       ELSE SubSeq(s, CHOOSE q \in inked : \A r \in inked : q <= r,
                      CHOOSE q \in inked : \A r \in inked : r <= q)

\* The text between the commas of a derive body, piece by piece, trimmed.
TokensOf(s) ==
    [n \in 1..(Cardinality(CommasOf(s)) + 1) |->
        Trimmed(SubSeq(s, NthComma(s, n - 1) + 1, NthComma(s, n) - 1))]

\* The derive annotation lines directly followed by a declaration line of t,
\* and the well-formed ones among them.
DerivesBefore(t) ==
    { k \in DOMAIN content : content[k].derive /\ k + 1 <= Len(content)
                             /\ content[k + 1].decl = t }

WellFormedDerivesBefore(t) == { k \in DerivesBefore(t) : content[k].dmatch }

\* C6: a derive annotation whose next line is not a type declaration adds no
\* trait to any type, wherever it stands: the trait list recorded for a type,
\* in traits_map and in its relation, is empty or the token list of an
\* annotation that the line right before a declaration line of that type
\* holds.
C6_DeriveOnlyFromAdjacentLine ==
    /\ \A t \in DOMAIN traits_map :
          \E k \in DerivesBefore(t) : traits_map[t] = TokensOf(content[k].body)
    /\ \A r \in DOMAIN relations :
          \/ relations[r].implemented_traits = <<>>
          \/ \E k \in DerivesBefore(relations[r].type_name) :
                relations[r].implemented_traits = TokensOf(content[k].body)

\* A finished analysis of a file with a derive annotation, a line that is
\* neither a declaration nor an annotation, and then a declaration whose
\* relation has no trait; and of a file that ends with a derive annotation.
C6_Witness ==
    /\ pc = "done"
    /\ \/ \E k \in DOMAIN content :
             /\ content[k].derive /\ content[k].dmatch
             /\ k + 2 <= Len(content)
             /\ content[k + 1].decl = None /\ ~content[k + 1].derive
             /\ content[k + 2].decl # None
             /\ \A r \in RelationsOf(content[k + 2].decl) :
                   relations[r].implemented_traits = <<>>
             /\ content[Len(content)].derive /\ content[Len(content)].dmatch

\* The line at which the context of t is finalized: the first declaration of
\* the next new type, or one past the last line.
FirstDeclOf(t) == CHOOSE k \in DOMAIN content : IsFirstDecl(k) /\ content[k].decl = t

FinalizedAt(t) ==
    LET later == { j \in DOMAIN content : j > FirstDeclOf(t) /\ IsFirstDecl(j) }
    IN IF later = {} THEN Len(content) + 1
       ELSE CHOOSE j \in later : \A m \in later : j <= m

\* The well-formed annotations for t scanned before its context is finalized.
CountedDerives(t) == { k \in WellFormedDerivesBefore(t) : k < FinalizedAt(t) }

TraitsOf(t) == { relations[r].implemented_traits : r \in RelationsOf(t) }

\* C7 as stated: for every well-formed derive annotation directly followed by
\* a declaration line of T, first declaration or not, the relation of T has
\* the token list of that annotation as implemented_traits.
C7_AsStated ==
    pc = "done" =>
        \A t \in DeclaredNames : \A k \in WellFormedDerivesBefore(t) :
            TraitsOf(t) = { TokensOf(content[k].body) }

\* C7 amended: the relation of T has the token list of the last such
\* annotation scanned before the context of T is finalized (an annotation on
\* a later re-declaration is ignored, an earlier one is replaced), and no
\* trait when there is none.
C7_LastDeriveBeforeFinalization ==
    pc = "done" =>
        \A t \in DeclaredNames :
            LET counted == CountedDerives(t)
            IN TraitsOf(t) =
                 { IF counted = {} THEN <<>>
                   ELSE TokensOf(content[CHOOSE k \in counted :
                                            \A m \in counted : m <= k].body) }

\* A finished analysis in which a type has two annotated declaration lines in
\* its own context, the second one with the body "D, C", and the relation
\* holds the tokens "D" and "C".
C7_Witness ==
    /\ pc = "done"
    /\ \E t \in DeclaredNames :
          /\ Cardinality(CountedDerives(t)) = 2
          /\ \E k \in CountedDerives(t) :
                /\ content[k].body = <<"D", ",", " ", "C">>
                /\ \A m \in CountedDerives(t) : m <= k
          /\ TraitsOf(t) = { << <<"D">>, <<"C">> >> }

----------------------------------------------------------------------------
(* C8 *)

\* C8: at every point, before and after the closure step, the names in the
\* depends_on and used_by of every relation are names the file declares.
C8_OnlyDeclaredNames ==
    \A k \in DOMAIN relations :
        Range(relations[k].depends_on) \cup Range(relations[k].used_by)
            \subseteq DeclaredNames

\* A finished analysis of a file in which the context of a type mentions an
\* undeclared name and a declared one.
C8_Witness ==
    /\ pc = "done"
    /\ \E j, k \in DOMAIN content :
          /\ Owner(j) # None /\ Owner(k) = Owner(j)
          /\ content[j].refs # {} /\ content[j].refs \cap DeclaredNames = {}
          /\ DependsOnOf(Owner(k)) # {}
          /\ content[k].refs \cap DependsOnOf(Owner(k)) # {}

----------------------------------------------------------------------------
(* C9 *)

\* C9: build_type_relations applied to the relations it has produced returns
\* them as they are, element for element and in the same order.
C9_ClosureIdempotent ==
    pc = "done" => BuildTypeRelations(relations) = relations

\* A finished analysis whose closure step added a dependency to a relation
\* that now holds two.
C9_Witness ==
    /\ pc = "done"
    /\ \E t \in DeclaredNames :
          /\ Cardinality(DependsOnOf(t)) >= 2
          /\ \E d \in DependsOnOf(t) :
                \A k \in DOMAIN content : Owner(k) = t => d \notin content[k].refs

----------------------------------------------------------------------------
(* C10 *)

\* The pairs (t, x): a line in the context of t mentions the declared type x.
MentionEdges ==
    LET owner == [k \in DOMAIN content |-> Owner(k)]
    IN { e \in DeclaredNames \X DeclaredNames :
           \E k \in DOMAIN content : owner[k] = e[1] /\ e[2] \in content[k].refs }

\* C10: in the output a type is in its own depends_on exactly when it is on
\* a cycle of mentions that goes through another type; two types that mention
\* each other both end with the two of them in depends_on.
C10_SelfDependencyIffCycle ==
    pc = "done" =>
        LET E == MentionEdges
            reach == [t \in DeclaredNames |-> Reachable(E, t)]
        IN /\ \A t \in DeclaredNames :
                 (t \in DependsOnOf(t)) <=>
                     (\E u \in DeclaredNames \ {t} : u \in reach[t] /\ t \in reach[u])
           /\ \A a, b \in DeclaredNames :
                 (a # b /\ <<a, b>> \in E /\ <<b, a>> \in E)
                     => {a, b} \subseteq DependsOnOf(a)

\* A finished analysis of a file in which two types mention each other and a
\* third one mentions only itself.
C10_Witness ==
    /\ pc = "done"
    /\ \E a, b, c \in DeclaredNames :
          /\ a # b /\ c \notin {a, b}
          /\ <<a, b>> \in MentionEdges /\ <<b, a>> \in MentionEdges
          /\ <<c, c>> \in MentionEdges
          /\ {a, b} \subseteq DependsOnOf(a)
          /\ c \notin DependsOnOf(c)

----------------------------------------------------------------------------
(* C11 *)

\* C11: at every point of the analysis the relations are in the order of the
\* first declaration lines of their types; lines that declare a type again,
\* wherever they stand, neither move a relation nor add one.
C11_OrderedByFirstDeclaration ==
    \A a, b \in DOMAIN relations :
        a < b => FirstDeclOf(relations[a].type_name) < FirstDeclOf(relations[b].type_name)

\* A finished analysis with three relations, of a file whose first declared
\* type is declared again after the second one.
C11_Witness ==
    /\ pc = "done"
    /\ Len(relations) = 3
    /\ \E k \in DOMAIN content :
          /\ IsRedecl(k)
          /\ content[k].decl = relations[1].type_name
          /\ k > FirstDeclOf(relations[2].type_name)

----------------------------------------------------------------------------
(* C12 *)

\* A Vec of names in strictly ascending order: sorted and without duplicate.
StrictlyAscending(v) == \A a, b \in DOMAIN v : a < b => Ord(v[a]) < Ord(v[b])

\* C12: in the output of analyze_type_relations the depends_on and the used_by
\* of every relation are sorted ascending and hold no duplicate.
C12_SortedWithoutDuplicates ==
    pc = "done" =>
        \A k \in DOMAIN relations :
            /\ StrictlyAscending(relations[k].depends_on)
            /\ StrictlyAscending(relations[k].used_by)

\* A finished analysis with a type that two others use and that depends on
\* nothing, and a type that depends on it and that nothing uses.
C12_Witness ==
    /\ pc = "done"
    /\ \E j, k \in DOMAIN relations :
          /\ Len(relations[j].used_by) = 2 /\ relations[j].depends_on = <<>>
          /\ relations[k].used_by = <<>> /\ Len(relations[k].depends_on) = 1

----------------------------------------------------------------------------
(* C13 *)

\* What is left of s after the word `word` and the blanks that follow it, or
\* s itself when it does not start with the word and a blank.
AfterWord(s, word) ==
    LET n == Len(Chars(word))
    IN IF StartsWith(s, word) /\ Len(s) > n /\ s[n + 1] \in Space
       THEN TrimStart(SubSeq(s, n + 1, Len(s)))
       ELSE s

\* A line of text holds a type declaration: after its indentation and an
\* optional `pub` come `struct`, `enum` or `type`, and then a name that starts
\* with a capital letter.
HoldsTypeDeclaration(raw) ==
    LET line == AfterWord(Trim(raw), "pub")
    IN \E keyword \in {"struct", "enum", "type"} :
          LET rest == AfterWord(line, keyword)
          IN rest # line /\ rest # <<>> /\ rest[1] \in Upper

\* C13: a call of analyze_content has no step at which it stops short of its
\* return, whatever the text, and it returns its tuple with an empty list of
\* relations when no line of the text holds a type declaration.
C13_AlwaysReturnsAndEmptyWithoutDeclaration ==
    /\ (caller = "analyze_content" /\ pc # "returned") => ENABLED ContentSteps
    /\ (caller = "analyze_content" /\ pc = "returned"
            /\ \A k \in DOMAIN text : ~HoldsTypeDeclaration(text[k]))
        => relations = <<>>

\* analyze_content has returned from a text of three lines without a type
\* declaration, one of them a comment that names a type, with a signature
\* and a constant extracted and no relation.
C13_Witness ==
    /\ caller = "analyze_content" /\ pc = "returned"
    /\ Len(text) = MaxLines
    /\ \A k \in DOMAIN text : ~HoldsTypeDeclaration(text[k])
    /\ \E k \in DOMAIN text : text[k] = Chars("// struct Foo")
    /\ signatures # <<>> /\ configuration.constants # <<>>
    /\ relations = <<>>

----------------------------------------------------------------------------
(* C14 *)

\* The lines of a text that hold a function signature, in their order.
SignatureLinesOf(lines) == SelectSeq(lines, LAMBDA line : line \in SignatureLines)

\* The visibility that the qualifier of a signature line stands for.
QualifierVisibility(line) ==
    IF StartsWith(line, "pub(crate) ") THEN "PublicCrate"
    ELSE IF StartsWith(line, "pub ") THEN "Public"
    ELSE "Private"

\* C14: every line holding a function signature yields one MethodSignature,
\* whose visibility is Private without a qualifier, Public with `pub` and
\* PublicCrate with `pub(crate)`, signatures without generic parameters
\* included.
C14_AsStated ==
    pc = "returned" =>
        LET held == SignatureLinesOf(text)
        IN /\ Len(signatures) = Len(held)
           /\ \A k \in DOMAIN held :
                 signatures[k].visibility = QualifierVisibility(held[k])

\* analyze_method_signatures has returned no signature for the plain
\* signature `fn helper(x: i32) -> bool`.
C14_PlainSignatureLost ==
    /\ pc = "returned"
    /\ text = <<Chars("fn helper(x: i32) -> bool")>>
    /\ signatures = <<>>

----------------------------------------------------------------------------
(* C15 *)

\* The lines of a text from which a signature is extracted, in their order.
ExtractedLinesOf(lines) ==
    SelectSeq(lines, LAMBDA line : OnLine[line].method_pattern.found)

\* The argument-list text of a signature line: what stands between the last
\* opening parenthesis of the line and the closing one after it.
ArgumentText(line) ==
    LET open == CHOOSE q \in DOMAIN line :
                    line[q] = "(" /\ \A r \in DOMAIN line : line[r] = "(" => r <= q
        close == CHOOSE q \in DOMAIN line :
                    /\ q > open /\ line[q] = ")"
                    /\ \A r \in (open + 1)..(q - 1) : line[r] # ")"
    IN SubSeq(line, open + 1, close - 1)

\* C15: the params of every extracted signature are the pieces between the
\* commas of the argument-list text, in order and trimmed, one more than
\* there are commas, so that a type with a comma inside is split.
C15_ParamsSplitAtEveryComma ==
    pc = "returned" =>
        LET from == ExtractedLinesOf(text)
        IN /\ Len(signatures) = Len(from)
           /\ \A k \in DOMAIN from :
                 /\ signatures[k].params = TokensOf(ArgumentText(from[k]))
                 /\ Len(signatures[k].params) =
                        Cardinality(CommasOf(ArgumentText(from[k]))) + 1

\* Two signatures have been extracted, the first with the one parameter
\* `m: Map<K, V>` and a second parameter, split in three pieces, the other
\* with an empty argument list, which gives one empty piece.
C15_Witness ==
    /\ pc = "returned"
    /\ Len(signatures) = 2
    /\ signatures[1].params = <<Chars("m: Map<K"), Chars("V>"), Chars("n: u8")>>
    /\ signatures[2].params = << <<>> >>

----------------------------------------------------------------------------
(* C16 and C17: the summary *)

\* Line `line` starts with the text `start` and a word character after it.
StartsWord(line, start) ==
    /\ StartsWith(line, start)
    /\ Len(line) > Len(Chars(start))
    /\ line[Len(Chars(start)) + 1] \in Word

\* The rule that labels a line, by number, for each of the nine rules: doc
\* comment, module doc comment, public fn, private fn, public struct, public
\* enum, public trait, impl, bracketed section.
Labels(rule, line) ==
    CASE rule = 1 -> StartsWith(line, "///")
      [] rule = 2 -> StartsWith(line, "//!")
      [] rule = 3 -> StartsWord(line, "pub fn ")
      [] rule = 4 -> StartsWord(line, "fn ")
      [] rule = 5 -> StartsWord(line, "pub struct ")
      [] rule = 6 -> StartsWord(line, "pub enum ")
      [] rule = 7 -> StartsWord(line, "pub trait ")
      [] rule = 8 -> /\ StartsWith(line, "impl") /\ Len(line) > 4 /\ line[5] \in Space
                     /\ TrimStart(SubSeq(line, 5, Len(line))) # <<>>
                     /\ TrimStart(SubSeq(line, 5, Len(line)))[1] \in Word
      [] rule = 9 -> /\ StartsWith(line, "[")
                     /\ \E q \in 2..Len(line) : line[q] = "]"

RuleLabel ==
    << "Documentation: ", "Module documentation: ", "Public method: ", "Private method: ",
       "Public struct: ", "Public enum: ", "Public trait: ", "Implementation: ",
       "Section: " >>

\* The pairs of a rule and a line of the text that the rule labels.
LabeledPairs ==
    { h \in (DOMAIN RuleLabel) \X (DOMAIN text) : Labels(h[1], text[h[2]]) }

\* Pair g comes before pair h: an earlier rule, or the same rule and an
\* earlier line.
Before(g, h) == g[1] < h[1] \/ (g[1] = h[1] /\ g[2] < h[2])

\* The number of lines that start the summary of a text: the header and the
\* first five lines, or nothing for the empty text.
StartLength == IF text = <<>> THEN 0 ELSE 1 + (IF Len(text) < 5 THEN Len(text) ELSE 5)

\* The labeled part of the summary.
LabeledPart == SubSeq(summary, StartLength + 1, Len(summary))

\* C16: the labeled lines of the summary are grouped by rule and not by
\* source position: the labeled line of a rule and a line stands after those
\* of all earlier rules and after those of the same rule for earlier lines.
C16_GroupedByRule ==
    pc = "returned" =>
        /\ Len(LabeledPart) = Cardinality(LabeledPairs)
        /\ \A h \in LabeledPairs :
              LabeledPart[1 + Cardinality({ g \in LabeledPairs : Before(g, h) })]
                 = Chars(RuleLabel[h[1]]) \o Trim(text[h[2]])

\* The summary of a text whose first line is labeled by a later rule than its
\* second and third lines, which are two different lines of one rule: their
\* labeled lines come first, in source order.
C16_Witness ==
    /\ pc = "returned"
    /\ Len(text) = 3
    /\ \E r \in DOMAIN RuleLabel, q \in DOMAIN RuleLabel :
          /\ r < q
          /\ Labels(q, text[1]) /\ Labels(r, text[2]) /\ Labels(r, text[3])
          /\ text[2] # text[3] /\ Trim(text[3]) # text[3]
          /\ LabeledPart = << Chars(RuleLabel[r]) \o text[2],
                              Chars(RuleLabel[r]) \o Trim(text[3]),
                              Chars(RuleLabel[q]) \o text[1] >>

\* The first five lines of the text, or all of them when there are fewer.
FirstFive == SubSeq(text, 1, IF Len(text) < 5 THEN Len(text) ELSE 5)

\* C17 as stated: the summary is the first five lines of the file verbatim
\* (all of them when there are fewer) with nothing before them, followed by
\* the labeled lines, and the empty string for empty input.
C17_AsStated ==
    pc = "returned" =>
        /\ Len(summary) = Len(FirstFive) + Cardinality(LabeledPairs)
        /\ SubSeq(summary, 1, Len(FirstFive)) = FirstFive

\* C17: the summary of a text with at least one line is the header line
\* `File start:`, then the first five lines of the file verbatim (all of them
\* when there are fewer), then the labeled lines; the summary of the empty
\* text is empty.
C17_HeaderThenFirstFive ==
    pc = "returned" =>
        IF text = <<>> THEN summary = <<>>
        ELSE /\ Len(summary) = 1 + Len(FirstFive) + Cardinality(LabeledPairs)
             /\ summary[1] = Chars("File start:")
             /\ SubSeq(summary, 2, 1 + Len(FirstFive)) = FirstFive
             /\ \A k \in DOMAIN LabeledPart :
                   \E h \in LabeledPairs :
                      LabeledPart[k] = Chars(RuleLabel[h[1]]) \o Trim(text[h[2]])

\* The summary of a text of six lines, the sixth unlike the others and
\* labeled: the header, five lines as they are, indentation included, and
\* the labeled line.
C17_Witness ==
    /\ pc = "returned"
    /\ Len(text) = 6
    /\ \A k \in 1..5 : text[k] # text[6]
    /\ \E k \in 1..5 : Trim(text[k]) # text[k]
    /\ summary = <<Chars("File start:")>> \o SubSeq(text, 1, 5)
                    \o <<Chars("Private method: ") \o text[6]>>

----------------------------------------------------------------------------
(* C18 *)

\* The positions at which the text `str` stands in a line.
PositionsOf(line, str) ==
    { q \in 1..Len(line) : StartsWith(SubSeq(line, q, Len(line)), str) }

Least(S) == CHOOSE q \in S : \A r \in S : q <= r

Greatest(S) == CHOOSE q \in S : \A r \in S : r <= q

\* A line holds a constant declaration `[pub] const NAME: TYPE = VALUE;`.
HoldsConstant(line) ==
    /\ PositionsOf(line, "const ") # {}
    /\ LET from == Least(PositionsOf(line, "const ")) + 6
       IN \E colon \in PositionsOf(line, ":"), equals \in PositionsOf(line, "=") :
             from < colon /\ colon < equals /\ equals < Len(Trim(line))
    /\ Trim(line)[Len(Trim(line))] = ";"

\* The NAME, the TYPE and the VALUE of such a line: the NAME up to the first
\* colon, the TYPE up to the first equals sign after it, the VALUE up to the
\* semicolon that ends the declaration, each trimmed.
DeclaredConstant(line) ==
    LET from == Least(PositionsOf(line, "const ")) + 6
        colon == Least({ q \in PositionsOf(line, ":") : q > from })
        equals == Least({ q \in PositionsOf(line, "=") : q > colon })
        semicolon == Greatest(PositionsOf(line, ";"))
    IN << Trim(SubSeq(line, from, colon - 1)),
          Trim(SubSeq(line, colon + 1, equals - 1)),
          Trim(SubSeq(line, equals + 1, semicolon - 1)) >>

\* The lines of a text that hold a constant declaration, in their order.
ConstantLinesOf(lines) == SelectSeq(lines, HoldsConstant)

\* C18: every line holding a constant declaration adds exactly one triple
\* (NAME, TYPE, VALUE), trimmed, to constants, and constants keep source
\* order.
C18_AsStated ==
    pc = "returned" =>
        LET held == ConstantLinesOf(text)
        IN /\ Len(configuration.constants) = Len(held)
           /\ \A k \in DOMAIN held :
                 configuration.constants[k] = DeclaredConstant(held[k])

\* analyze_configuration has returned the value `[0` for the constant
\* `const ZEROS: [u8; 4] = [0; 4];`.
C18_ValueCutAtSemicolon ==
    /\ pc = "returned"
    /\ text = <<Chars("const ZEROS: [u8; 4] = [0; 4];")>>
    /\ configuration.constants = << <<Chars("ZEROS"), Chars("[u8; 4]"), Chars("[0")>> >>

\* What holds of the declarations whose VALUE has no semicolon inside: one
\* triple each, as declared, in source order.
C18_HoldsWithoutInnerSemicolon ==
    (pc = "returned"
        /\ \A k \in DOMAIN text :
               HoldsConstant(text[k]) => Cardinality(PositionsOf(text[k], ";")) = 1)
    => C18_AsStated

----------------------------------------------------------------------------
(* C19 and C20: get_with_retry *)

\* C19: a call get_with_retry(url, max_retries) issues at most
\* max_retries + 1 requests, whatever the server answers.
C19_AsStated == requests <= max_retries + 1

\* A call with max_retries = 0 that has been answered with no quota left and
\* a reset time ahead every time: it has not failed once, it has slept after
\* every answer, and it goes on sending.
C19_RequestsWithoutEnd ==
    /\ max_retries = 0 /\ retries = 0
    /\ cpc = "await"
    /\ requests = MaxRequests
    /\ Len(slept) = MaxRequests - 1
    /\ result = NoResult

\* A response signals quota exhaustion: no quota left, or HTTP 403.
SignalsExhaustion(r) == r.kind = "response" /\ (r.remaining = 0 \/ r.status = 403)

\* C20: whenever a response signals quota exhaustion the call waits until
\* the reset time the server gave and goes back to send the request again;
\* it never returns a RateLimitError while a retry is still possible.
C20_AsStated ==
    /\ SignalsExhaustion(response) =>
          /\ cpc = "loop" /\ retries <= max_retries
          /\ response.reset # Absent => now > response.reset
    /\ (cpc = "returned" /\ result.kind = "Err" /\ result.error.kind = "RateLimitError")
          => retries > max_retries

\* The first response of a call with retries left was a 403 with a reset
\* time ahead and no remaining-quota header: the call has returned the
\* RateLimitError at once, without a wait.
C20_ForbiddenIsTerminal ==
    /\ cpc = "returned"
    /\ max_retries = MaxRetries /\ retries = 0 /\ requests = 1
    /\ response.kind = "response" /\ response.status = 403
    /\ response.remaining = Absent /\ response.reset > now
    /\ slept = <<>>
    /\ result = Err(RateLimitError(response.reset))

----------------------------------------------------------------------------
(* C26 *)

\* The declared types other than t that the lines of t's context mention:
\* the lines from the first declaration line of t up to the first
\* declaration line of the next new type.
MentionedInContext(t) ==
    { n \in DeclaredNames \ {t} :
        \E k \in DOMAIN content : Owner(k) = t /\ n \in content[k].refs }

\* C26: before the closure step the depends_on of every relation is exactly
\* the set of declared types, other than its own, that the lines of its
\* context mention; the lines before the first declaration count for no
\* type, a line that declares a new type counts for that type, and nothing
\* is carried over from one context into the next.
C26_ImmediateDependsOnIsContext ==
    pc \in {"scan", "build"} =>
        \A k \in DOMAIN relations :
            Range(relations[k].depends_on) = MentionedInContext(relations[k].type_name)

\* The scan has ended on a file whose first line, before any declaration,
\* mentions a declared type, and in which the line that declares a second
\* type mentions the first one: the first type has a dependency and the
\* mention on the second declaration line is not among its dependencies.
C26_Witness ==
    /\ pc = "build" /\ Len(content) >= 3
    /\ Owner(1) = None /\ content[1].refs \cap DeclaredNames # {}
    /\ \E j \in DOMAIN content :
          /\ j > 2 /\ IsFirstDecl(j) /\ Owner(j - 1) # None
          /\ DependsOnOf(Owner(j - 1)) # {}
          /\ content[j].refs = {Owner(j - 1)}
          /\ DependsOnOf(content[j].decl) = {Owner(j - 1)}

----------------------------------------------------------------------------
(* C27 *)

\* C27: in the output used_by is the inverse of depends_on: for declared
\* types T and X, X is in the depends_on of T exactly when T is in the
\* used_by of X.
C27_UsedByIsInverse ==
    pc = "done" =>
        \A t, x \in DeclaredNames : x \in DependsOnOf(t) <=> t \in UsedByOf(x)

\* A finished analysis in which a type is declared, and so finalized, before
\* the two types that use it, one of them only through the other.
C27_Witness ==
    /\ pc = "done"
    /\ \E x, t, u \in DeclaredNames :
          /\ x # t /\ t # u /\ x # u
          /\ FirstDeclOf(x) < FirstDeclOf(t) /\ FirstDeclOf(t) < FirstDeclOf(u)
          /\ UsedByOf(x) = {t, u} /\ DependsOnOf(u) = {t, x}
          /\ \A k \in DOMAIN content : Owner(k) = u => x \notin content[k].refs

----------------------------------------------------------------------------
(* The exporter's chunks *)

\* The number of files a chunk holds: one opening of a document block each.
FilesIn(data) == Cardinality({ k \in DOMAIN data : data[k] = DELIMITER[1] })

\* The number of files in the chunks before the k-th.
RECURSIVE FilesBefore(_)
FilesBefore(k) == IF k = 0 THEN 0 ELSE FilesBefore(k - 1) + FilesIn(chunks[k - 1])

\* C23 as stated: every chunk file holds at most CHUNK_SIZE files, also after
\* a chunk write has failed and add_file has returned an error.
C23_AsStated == \A k \in DOMAIN chunks : FilesIn(chunks[k]) <= CHUNK_SIZE

\* A chunk of six files, written by the add_file that follows a failed write.
C23_SixFilesInOneChunk ==
    /\ epc = "finished" /\ finish_result = Ok
    /\ \E k \in DOMAIN chunks : FilesIn(chunks[k]) = CHUNK_SIZE + 1

\* The document block of the README's Format section: the path in the first
\* place of DELIMITER, the content in the second.
Block(file) ==
    << DELIMITER[1], file[1], DELIMITER[3], file[2], DELIMITER[5] >>

RECURSIVE Blocks(_, _)
Blocks(files, k) ==
    IF k > Len(files) THEN <<>> ELSE Block(files[k]) \o Blocks(files, k + 1)

\* C24 as stated: in the chunks of a finished export each file is one document
\* block with its path between the source tags and its content between the
\* document_content tags, before the closing document tag.
C24_AsStated ==
    (epc = "finished" /\ finish_result = Ok) =>
        ChunksInOrder(chunks, 0, chunk_counter) = Blocks(added, 1)

\* One file exported: its path in both places, its content after the block.
C24_PathTwiceContentAfter ==
    /\ epc = "finished" /\ finish_result = Ok /\ Len(added) = 1
    /\ chunks[0] = << DELIMITER[1], added[1][1], DELIMITER[3], added[1][1],
                      DELIMITER[5], added[1][2] >>

\* C28: after a successful finish the chunk indexes are 0..chunk_counter-1,
\* every chunk holds the next files of the sequence that was added, in their
\* order, and all of them are in the chunks; after an add_file that returned
\* Ok the buffer holds fewer than CHUNK_SIZE files.
C28_EveryFileInOneChunkInOrder ==
    /\ (epc = "finished" /\ finish_result = Ok) =>
          /\ DOMAIN chunks = 0..(chunk_counter - 1)
          /\ \A k \in DOMAIN chunks :
                chunks[k] = ChunkContent(SubSeq(added, FilesBefore(k) + 1,
                                                FilesBefore(k) + FilesIn(chunks[k])), 1)
          /\ FilesBefore(chunk_counter) = Len(added)
          /\ current_files = <<>>
    /\ add_result = Ok => Len(current_files) < CHUNK_SIZE

\* A finished export whose first chunk was written after a failed write and
\* is followed by a second chunk.
C28_Witness ==
    /\ epc = "finished" /\ finish_result = Ok
    /\ chunk_counter = 2 /\ Len(added) = CHUNK_SIZE + 2
    /\ FilesIn(chunks[0]) = CHUNK_SIZE + 1 /\ FilesIn(chunks[1]) = 1
    /\ added[1] # added[2]

----------------------------------------------------------------------------
(* The crawl *)

\* The attempt that runs, or ran last.
ThisAttempt == attempts[Len(attempts)]

\* The entries of an attempt that are files of a size up to the ceiling.
IsSmallFile(entry) == entry.type = "file" /\ entry.size <= SizeCeiling

\* Their paths, in the order of the visit.
RECURSIVE SmallFilePaths(_, _)
SmallFilePaths(visited, k) ==
    IF k > Len(visited) THEN <<>>
    ELSE (IF IsSmallFile(visited[k]) THEN <<visited[k].path>> ELSE <<>>)
         \o SmallFilePaths(visited, k + 1)

\* The paths of the file summaries of a ProjectSummary.
SummarizedPaths(ps) == { ps.file_summaries[k].path : k \in DOMAIN ps.file_summaries }

\* The calls of an attempt that fetched a file, and those that failed.
FileCalls(attempt) == { k \in DOMAIN attempt.calls : attempt.calls[k].op = "file" }

FailedFileCalls(attempt) == { k \in FileCalls(attempt) : attempt.calls[k].result # "Ok" }

\* get_repo_contents failed: the request for an array and the request for a
\* single item of the same directory both returned an error.
FailedListings(attempt) ==
    { k \in DOMAIN attempt.calls :
        /\ k > 1
        /\ attempt.calls[k].op = "list" /\ attempt.calls[k].result # "Ok"
        /\ attempt.calls[k - 1].op = "list" /\ attempt.calls[k - 1].result # "Ok"
        /\ attempt.calls[k - 1].path = attempt.calls[k].path }

\* C21 as stated, for the repository analysis: a decode failure of a file
\* fetch is surfaced, so analyze does not return Ok from an attempt in which
\* get_file_content returned a ParseError.
C21_AsStated ==
    outcome.kind = "Ok" =>
        \A k \in FileCalls(ThisAttempt) : ThisAttempt.calls[k].result # "ParseError"

\* analyze returned Ok although the only file of the repository could not be
\* decoded: the file is counted and has no summary.
C21_DecodeFailureSwallowed ==
    /\ outcome.kind = "Ok"
    /\ ThisAttempt.calls = << [op |-> "list", path |-> <<>>, result |-> "Ok"],
                              [op |-> "file", path |-> Chars("main.rs"),
                               result |-> "ParseError"] >>
    /\ outcome.value.files_analyzed = << Chars("main.rs") >>
    /\ outcome.value.file_summaries = <<>>

\* C22: a file is fetched, and given to analyze_content, only if its size is
\* at most 1,000,000 and categorize_file of its name is Source, Configuration
\* or Documentation; an entry above the ceiling is in no list of the summary.
C22_FetchesOnlySmallSourceConfigurationDocumentation ==
    /\ \A a \in DOMAIN attempts :
          LET Gated(path) ==
                  \E v \in DOMAIN attempts[a].visited :
                     LET entry == attempts[a].visited[v]
                     IN /\ entry.path = path
                        /\ entry.type = "file"
                        /\ entry.size <= 1000000
                        /\ categorize_file(entry.name).kind
                               \in {"Source", "Configuration", "Documentation"}
          IN /\ \A k \in FileCalls(attempts[a]) : Gated(attempts[a].calls[k].path)
             /\ \A k \in DOMAIN attempts[a].analyzed : Gated(attempts[a].analyzed[k])
    /\ project_summary # NoSummary =>
          \A v \in DOMAIN ThisAttempt.visited :
             ThisAttempt.visited[v].size > 1000000 =>
                /\ ThisAttempt.visited[v].path \notin Range(project_summary.files_analyzed)
                /\ ThisAttempt.visited[v].path \notin SummarizedPaths(project_summary)

\* A finished analysis that met a file above the ceiling, a Rust file and a
\* test file: the first is not counted, the last is counted and not fetched.
C22_Witness ==
    /\ outcome.kind = "Ok"
    /\ Len(ThisAttempt.visited) = 3
    /\ ThisAttempt.visited[1].path = Chars("big.rs")
    /\ outcome.value.files_analyzed = << Chars("main.rs"), Chars("test_notes.txt") >>
    /\ ThisAttempt.analyzed = << Chars("main.rs") >>
    /\ FileCalls(ThisAttempt) = {2}

\* C29: the first attempt is on main and the second, made only after the
\* first returned an error, on master; an Ok of analyze carries the summary of
\* the attempt that succeeded, named after its branch and holding the files of
\* that attempt only; an Err carries the error of the attempt on master.
C29_MainThenMaster ==
    /\ Len(attempts) <= 2
    /\ \A a \in DOMAIN attempts : attempts[a].branch = (IF a = 1 THEN "main" ELSE "master")
    /\ Len(attempts) = 2 => attempts[1].error # NoError
    /\ outcome.kind = "Ok" =>
          /\ ThisAttempt.error = NoError
          /\ outcome.value.branch_analyzed = ThisAttempt.branch
          /\ outcome.value.files_analyzed = SmallFilePaths(ThisAttempt.visited, 1)
          /\ SummarizedPaths(outcome.value) = Range(ThisAttempt.analyzed)
    /\ outcome.kind = "Err" =>
          /\ Len(attempts) = 2
          /\ attempts[2].error # NoError
          /\ outcome.error = attempts[2].error

\* The attempt on main summarized a file and failed on the listing of src;
\* the attempt on master succeeded with another file.
C29_Witness ==
    /\ outcome.kind = "Ok"
    /\ Len(attempts) = 2
    /\ attempts[1].analyzed = << Chars("main.rs") >>
    /\ attempts[1].error # NoError
    /\ outcome.value.branch_analyzed = "master"
    /\ outcome.value.files_analyzed = << Chars("README.md") >>
    /\ SummarizedPaths(outcome.value) = { Chars("README.md") }

\* C30: an attempt ends with an error exactly when a listing of it failed,
\* at once and with the error of that listing, and no summary comes from it;
\* a file whose fetch failed is counted in files_analyzed and has no file
\* summary, and the attempt goes on.
C30_ListingAbortsFetchDoesNot ==
    /\ \A a \in DOMAIN attempts :
          LET attempt == attempts[a]
          IN /\ attempt.error # NoError <=> FailedListings(attempt) # {}
             /\ FailedListings(attempt) \subseteq {Len(attempt.calls)}
             /\ attempt.error # NoError =>
                   /\ attempt.calls[Len(attempt.calls)].result = attempt.error.kind
                   /\ a = Len(attempts) => project_summary = NoSummary /\ outcome.kind # "Ok"
    /\ project_summary # NoSummary =>
          \A k \in FailedFileCalls(ThisAttempt) :
             /\ ThisAttempt.calls[k].path \in Range(project_summary.files_analyzed)
             /\ ThisAttempt.calls[k].path \notin SummarizedPaths(project_summary)

\* The attempt on main failed on the listing of src, one level down; the
\* attempt on master could not fetch Cargo.toml, went on to main.rs and
\* succeeded.
C30_Witness ==
    /\ outcome.kind = "Ok"
    /\ Len(attempts) = 2
    /\ FailedListings(attempts[1]) = {3}
    /\ attempts[1].calls[3].path = Chars("src")
    /\ FailedFileCalls(attempts[2]) = {2}
    /\ outcome.value.files_analyzed = << Chars("Cargo.toml"), Chars("main.rs") >>
    /\ SummarizedPaths(outcome.value) = { Chars("main.rs") }

----------------------------------------------------------------------------
(* Purity *)

----------------------------------------------------------------------------
(* The counters of the summary *)

\* C31: in the summary of a successful analysis total_files is the length
\* of files_analyzed, which holds the visited files of a size of at most
\* 1,000,000 whatever their category; the path of every file summary is in
\* files_analyzed; total_rust_files is the number of file summaries of
\* category Source("rs").
C31_TotalsCountVisitedFiles ==
    outcome.kind = "Ok" =>
        LET ps == outcome.value
            counted == { v \in DOMAIN ThisAttempt.visited :
                            /\ ThisAttempt.visited[v].type = "file"
                            /\ ThisAttempt.visited[v].size <= 1000000 }
        IN /\ ps.total_files = Len(ps.files_analyzed)
           /\ Len(ps.files_analyzed) = Cardinality(counted)
           /\ Range(ps.files_analyzed) = { ThisAttempt.visited[v].path : v \in counted }
           /\ SummarizedPaths(ps) \subseteq Range(ps.files_analyzed)
           /\ ps.total_rust_files =
                 Cardinality({ k \in DOMAIN ps.file_summaries :
                                  ps.file_summaries[k].category = Category("Source", Chars("rs")) })

\* A finished analysis that met a documentation file at the ceiling whose
\* fetch failed, a file above the ceiling and a Rust file.
C31_Witness ==
    /\ outcome.kind = "Ok"
    /\ Len(ThisAttempt.visited) = 3
    /\ outcome.value.files_analyzed = << Chars("README.md"), Chars("main.rs") >>
    /\ ThisAttempt.visited[2].path = Chars("big.rs")
    /\ outcome.value.total_files = 2
    /\ SummarizedPaths(outcome.value) = { Chars("main.rs") }
    /\ outcome.value.total_rust_files = 1

----------------------------------------------------------------------------
(* The waits of get_with_retry *)

\* The number of requests before the k-th that failed.
FailuresBefore(k) == Cardinality({ j \in 1..(k - 1) : sent[j].outcome = "failed" })

\* C32 as stated: there is no wait before the first request, 2^k seconds
\* before the request that follows the k-th failure, and the waits before
\* consecutive requests of a call strictly increase.
C32_AsStated ==
    /\ sent # <<>> => sent[1].wait = 0
    /\ \A k \in 2..Len(sent) :
          sent[k - 1].outcome = "failed" => sent[k].wait = 2 ^ FailuresBefore(k)
    /\ \A k \in 2..Len(sent) : sent[k].wait > sent[k - 1].wait

\* C32, amended: there is no wait before the first request and 2^k seconds
\* before the request that follows the k-th failure, so the waits that follow
\* failures strictly increase; the request that follows a response with no
\* quota left waits for the pause until the reset and then again for the wait
\* of the failures so far, which has not grown.
C32_WaitGrowsWithFailures ==
    /\ sent # <<>> => sent[1].wait = 0
    /\ \A k \in 2..Len(sent) :
          /\ sent[k - 1].outcome = "failed" => sent[k].wait = 2 ^ FailuresBefore(k)
          /\ sent[k - 1].outcome = "limited" =>
                /\ FailuresBefore(k) = FailuresBefore(k - 1)
                /\ sent[k].wait = sent[k - 1].pause
                                    + (IF FailuresBefore(k) = 0 THEN 0 ELSE 2 ^ FailuresBefore(k))
    /\ \A j, k \in 2..Len(sent) :
          j < k /\ sent[j - 1].outcome = "failed" /\ sent[k - 1].outcome = "failed"
              => sent[j].wait < sent[k].wait

\* Three failures in a row, then a response with no quota left, then the
\* fifth request: waits of 2, 4 and 8 seconds, and of 8 and the pause.
C32_Witness ==
    /\ Len(sent) = 5
    /\ \A k \in 1..3 : sent[k].outcome = "failed"
    /\ sent[2].wait = 2 /\ sent[3].wait = 4 /\ sent[4].wait = 8
    /\ sent[4].outcome = "limited"
    /\ sent[5].wait = sent[4].pause + 8

----------------------------------------------------------------------------
(* The priority of the categories *)

\* C33: categorize_file decides by fixed priority: a source extension gives
\* Source with that extension, then a configuration file name gives
\* Configuration, then a documentation name Documentation, then a test name
\* Test, else Unknown. foo_test.go and test_utils.py are Source, and a file
\* is Test only when it has no source extension and is neither a
\* configuration file nor documentation.
C33_FixedPriority ==
    categorized.kind = "call" =>
        LET s == Chars(categorized.input)
            out == categorized.output
            source == Extension(s) \in SourceExtensions
        IN /\ source => out = Category("Source", Extension(s))
           /\ (~source /\ is_config_file(s)) => out = Category("Configuration", <<>>)
           /\ (~source /\ ~is_config_file(s) /\ is_documentation_file(s))
                 => out = Category("Documentation", <<>>)
           /\ (~source /\ ~is_config_file(s) /\ ~is_documentation_file(s) /\ is_test_file(s))
                 => out = Category("Test", <<>>)
           /\ (~source /\ ~is_config_file(s) /\ ~is_documentation_file(s) /\ ~is_test_file(s))
                 => out = Category("Unknown", <<>>)
           /\ categorized.input \in {"foo_test.go", "test_utils.py"} => out.kind = "Source"
           /\ out.kind = "Test" =>
                 ~source /\ ~is_config_file(s) /\ ~is_documentation_file(s)

\* foo_test.go has been categorized as Source("go") after testing.md, a test
\* name too, was categorized as Documentation.
C33_Witness ==
    /\ categorized.kind = "call" /\ categorized.input = "foo_test.go"
    /\ is_test_file(Chars(categorized.input))
    /\ categorized.output = Category("Source", Chars("go"))
    /\ earlier.kind = "call" /\ earlier.fn = "categorize_file"
    /\ earlier.input = "testing.md" /\ is_test_file(Chars(earlier.input))
    /\ earlier.output = Category("Documentation", <<>>)

----------------------------------------------------------------------------
(* The tests of the overview *)

\* The lines of a text that generate_summary copies: its first five, and
\* those a rule matches.
Copied(file) ==
    { j \in DOMAIN file :
        j <= 5 \/ \E r \in DOMAIN summary_patterns : OnLine[file[j]].summary_patterns[r] }

\* The times a text is copied with "Unit test: " in the copy: a first line
\* as it is, a matched line trimmed and once for every rule that matches it.
TestsCopied(file) ==
    LET among == { j \in DOMAIN file : j <= 5 /\ Matches(file[j], "Unit test: ") > 0 }
        labeled == { jr \in (DOMAIN file) \X (DOMAIN summary_patterns) :
                        /\ OnLine[file[jr[1]]].summary_patterns[jr[2]]
                        /\ Matches(Trim(file[jr[1]]), "Unit test: ") > 0 }
    IN Cardinality(among) + Cardinality(labeled)

\* The Rust files of a summary, as indexes of its file_summaries, which are
\* those of the texts of the attempt.
RustFiles(ps) ==
    { k \in DOMAIN ps.file_summaries :
        ps.file_summaries[k].category = Category("Source", Chars("rs")) }

====
